---- MODULE Spec2Model ----
(***************************************************************************)
(* A model of the incremental rebuild / hot-update engine of testify:      *)
(*   - HmrManager (src/src/hmr-manager.ts): watcher handlers, the          *)
(*     dependency graph, the change classifier and the rebuild scheduler;  *)
(*   - ViteConfigBuilder (src/src/vite-config-builder.ts): the input map;  *)
(*   - HMRClient (src/src/html-generator.ts): the live suite mutator that  *)
(*     runs in the browser host.                                           *)
(*                                                                         *)
(* The orchestrator runs on one event loop.  A step of the model is the    *)
(* code executed between two suspension points (an await); steps of        *)
(* different handlers interleave only there.                               *)
(***************************************************************************)
EXTENDS Integers, Sequences, FiniteSets, TLC

(***************************************************************************)
(* Bounds of the model.                                                    *)
(***************************************************************************)
\* queueRebuild invocations tracked over a run
MaxCalls == 3
\* file-system operations performed by the environment over a run
MaxDiskOps == 3
\* fatal bundler failures over a run
MaxFatal == 1
\* events observed by the watcher and not yet delivered when the environment
\* makes its next change
MaxPending == 1
\* file-system operations over a run of the fair specification
MaxLiveOps == 2
\* file-system operations over a run that includes a shutdown
MaxStopOps == 2
\* files in a set given to determineUpdateStrategy
MaxChanged == 2
\* messages the child process sends to the HostAdapter over a run
MaxHostEvents == 4
\* WebSocket connections over a run
MaxClients == 2
\* hmr:update events handed to broadcast over a run
MaxBroadcasts == 3
\* file-system operations over a run under a chosen strategy
MaxPolicyOps == 2
\* handleMessage invocations of the host in flight at once
MaxHandlers == 2
\* messages sent to the host over a run
MaxMsgs == 3
\* nodes the framework creates in the host over a run, the root included
MaxHostNodes == 5
\* nodes of the trees detachFilePathSuites is applied to
MaxTreeNodes == 4
\* reporter events given to the forwarders over a run
MaxForwarded == 3
\* times the browser's socket opens over a run
MaxOpens == 2
\* calls of NodeTestRunner.start() over a run
MaxStarts == 4

(***************************************************************************)
(* Paths.  A file is a record: the directory segments, the dot-separated   *)
(* parts of its base name without the extension, and the extension.        *)
(***************************************************************************)
FA == [dir |-> <<"src">>, name |-> <<"a">>, ext |-> "ts"]
FB == [dir |-> <<"src", "lib">>, name |-> <<"b">>, ext |-> "ts"]
FM == [dir |-> <<"src">>, name |-> <<"main">>, ext |-> "ts"]
FT == [dir |-> <<"tests", "unit">>, name |-> <<"t", "spec">>, ext |-> "ts"]
FU == [dir |-> <<"tests">>, name |-> <<"u", "spec">>, ext |-> "ts"]
FJ == [dir |-> <<"src">>, name |-> <<"data">>, ext |-> "json"]

\* the files of the watched project
Files == {FA, FB, FT, FJ}
\* the sub-directories of the watched roots that can be created and removed
Dirs == {<<"src", "lib">>, <<"tests", "unit">>}

NoFile == [dir |-> <<>>, name |-> <<>>, ext |-> ""]

IsPrefix(p, s) == Len(p) <= Len(s) /\ SubSeq(s, 1, Len(p)) = p

Range(s) == {s[i] : i \in DOMAIN s}

\* f.startsWith(dirPath + path.sep) || f === dirPath
UnderDir(f, d) == IsPrefix(d, f.dir)

\* path.relative(base, dir) for a dir below base
Relative(base, d) == SubSeq(d, Len(base) + 1, Len(d))

(***************************************************************************)
(* State.                                                                  *)
(***************************************************************************)
VARIABLES
    \* HmrManager options fixed by the constructor:
    \* [srcDir, testDir, strategy, mode]
    config,
    \* the file system: existing files, the import targets named in each
    \* file's text, and the bundler outputs present in outDir
    disk, imports, outFiles,
    \* the chokidar watcher: "on" | "closing" | "off", and the events it has
    \* observed but not yet delivered
    watcher, pendingEvents,
    \* fields of HmrManager
    allFiles, rebuildQueue, directChanges,
    dependencyGraph, reverseDependencyGraph,
    isRebuilding, rebuildPromise, viteCache,
    \* ViteConfigBuilder.inputMap: key -> file
    inputMap,
    \* the hmr:update events emitted by the step just taken, in order
    emitted,
    \* one record per queueRebuild invocation (its position and what it awaits)
    calls,
    \* one record per rebuildAll invocation, indexed by the call that made it
    rb,
    \* number of rebuild passes started so far
    passNo,
    \* budgets left for the environment: disk operations, fatal build errors
    opsLeft, fatalLeft

hmrVars == <<config, disk, imports, outFiles, watcher, pendingEvents,
             allFiles, rebuildQueue, directChanges, dependencyGraph,
             reverseDependencyGraph, isRebuilding, rebuildPromise, viteCache,
             inputMap, emitted, calls, rb, passNo, opsLeft, fatalLeft>>

VARIABLES
    \* the host page: the nodes of the framework's suite tree (node 1 is the
    \* root suite), each [kind, tag, children, hasSpecs, specs, origin, gen]
    nodes,
    \* loadSpecs: [pc, todo]
    loader,
    \* the handleMessage invocations in flight: [pc, path]
    handlers,
    \* messages sent to the host and not yet received
    inbox,
    \* location.reload() has been called
    reloading,
    \* the last call of detachFilePathSuites or attachFilePathToSuites made
    \* on a given tree: [file, before, after]
    detachLog,
    \* the sending side: [sent, gone]
    server

hostVars == <<nodes, loader, handlers, inbox, reloading, detachLog, server>>

VARIABLES
    \* the last evaluation of determineUpdateStrategy made from outside a
    \* handler: [files, changeType, policy, result]
    classifyLog,
    \* a call of getFilesToRebuild in selective mode: the locals of its loop,
    \* [start, queue, visited, filesToRebuild, order, iter, done]
    walk

logVars == <<classifyLog, walk>>

VARIABLES
    \* WebSocketManager: [clients, sent, closed]; clients[c] is the socket of
    \* client c, [state, greeted, received]; sent counts the hmr:update events
    \* of the manager handed to broadcast
    transport,
    \* HostAdapter: [queue, isProcessing, task, log, arrived]
    adapter,
    \* the forwarders of the reporter events on the side of the tests: ws is
    \* the browser's WebSocketEventForwarder, [sock, connected, queue, wire,
    \* opens],
    \* proc the child's ProcessEventForwarder, [connected, queue, wire,
    \* hook, hostReady]; wire is what was handed to the channel, in order;
    \* hook is the position of the child ("none": no forwarder yet, "idle",
    \* "awaiting": in the jasmineStarted hook, "running"); toChild holds the
    \* messages of the parent on their way to the child; produced counts the
    \* reporter events given to send
    forwarder,
    \* the NodeTestRunner that spawns a child process: child is the handle it
    \* holds (0: none), alive the children that have not exited, spawned their
    \* number; the NodeTestRunner of the host process: isRunning, and runs, the
    \* runs it has started; calls lists the calls of start(), each [runner,
    \* rejected], and reported the calls made to the reporter
    runner

bridgeVars == <<transport, adapter, forwarder, runner>>

primarySrcDir == config.srcDir
primaryTestDir == config.testDir
\* the smart strategy whatever the option says
smartStrategyOnly == "smart"

sourceChangeStrategy == config.strategy
rebuildMode == config.mode

(***************************************************************************)
(* File classification and the change classifier.                          *)
(***************************************************************************)
\* fileFilter.extensions
Extensions == {"ts", "js", "mjs"}
\* directory names excluded by fileFilter.exclude
ExcludedDirs == {"node_modules", ".git", "dist", "coverage"}

matchesFilter(f) ==
    /\ f.ext \in Extensions
    /\ Range(f.dir) \cap ExcludedDirs = {}

isTestFile(f) == IsPrefix(primaryTestDir, f.dir)

isSourceFile(f) == IsPrefix(primarySrcDir, f.dir)

\* the dot-separated parts of the base name, extension included
BaseParts(f) == f.name \o <<f.ext>>

\* picomatch of the default criticalSourcePatterns against the path
MatchesCriticalPattern(f) ==
    \/ "config" \in Range(f.dir)
    \/ "setup" \in Range(f.dir)
    \/ \E i \in 2..(Len(BaseParts(f)) - 1) : BaseParts(f)[i] = "config"
    \/ Len(BaseParts(f)) >= 2 /\ BaseParts(f)[1] \in {"bootstrap", "main", "index"}

\* a criticality test that does not ask whether the file is a source file
isCriticalAnywhere(f) == MatchesCriticalPattern(f)

isCriticalSourceFile(f) == isSourceFile(f) /\ MatchesCriticalPattern(f)

\* a classifier whose reason depends on how many files changed
determineUpdateStrategyBySize(changedFiles, changeType) ==
    IF Cardinality(changedFiles) > 1
    THEN [type |-> "update", reason |-> "General update"]
    ELSE IF \E f \in changedFiles : isSourceFile(f)
    THEN [type |-> "full-reload", reason |-> "Critical source file changed"]
    ELSE [type |-> "test-update", reason |-> "Test files changed - incremental update"]

determineUpdateStrategy(changedFiles, changeType) ==
    LET hasSourceChanges == \E f \in changedFiles : isSourceFile(f)
        hasTestChanges == \E f \in changedFiles : isTestFile(f)
        hasCriticalChanges == \E f \in changedFiles : isCriticalSourceFile(f)
    IN  IF ~hasSourceChanges /\ hasTestChanges
        THEN [type |-> "test-update", reason |-> "Test files changed - incremental update"]
        ELSE IF changeType \in {"unlink", "unlinkDir"}
        THEN IF hasCriticalChanges
             THEN [type |-> "full-reload", reason |-> "Critical source file/directory removed"]
             ELSE [type |-> "update", reason |-> "Source file/directory removed - updating dependents"]
        ELSE IF changeType \in {"add", "addDir"}
        THEN [type |-> "update", reason |-> "Source file/directory added - building new modules"]
        ELSE IF hasSourceChanges
        THEN IF sourceChangeStrategy = "always-reload"
             THEN [type |-> "full-reload", reason |-> "Source changed - always-reload strategy"]
             ELSE IF sourceChangeStrategy = "never-reload"
             THEN [type |-> "update", reason |-> "Source changed - never-reload strategy"]
             ELSE IF hasCriticalChanges
             THEN [type |-> "full-reload", reason |-> "Critical source file changed"]
             ELSE [type |-> "update", reason |-> "Source changed - incremental update"]
        ELSE [type |-> "update", reason |-> "General update"]

(***************************************************************************)
(* Output names and input-map keys.                                        *)
(***************************************************************************)
\* FileDiscoveryService.getOutputName: the path relative to the matching
\* root, its segments joined, the ts/js/mjs extension replaced by .js
getOutputName(f) ==
    LET base == IF isTestFile(f) THEN primaryTestDir
                ELSE IF isSourceFile(f) THEN primarySrcDir
                ELSE primarySrcDir
        rel == IF IsPrefix(base, f.dir) THEN Relative(base, f.dir) ELSE <<"up">> \o f.dir
        stem == IF f.ext \in Extensions THEN f.name ELSE f.name \o <<f.ext>>
    IN  [segs |-> rel, name |-> stem, ext |-> "js"]

\* the path handleDirectoryAdd / handleDirectoryRemove put in their update:
\* the directory relative to its root
DirOutput(d) ==
    LET base == IF IsPrefix(primaryTestDir, d) THEN primaryTestDir ELSE primarySrcDir
    IN  [segs |-> IF IsPrefix(base, d) THEN Relative(base, d) ELSE <<"up">> \o d,
         name |-> <<>>, ext |-> ""]

\* ViteConfigBuilder.buildInputMap: the key of a source file and of a test file
SrcKey(f) ==
    [segs |-> IF IsPrefix(primarySrcDir, f.dir) THEN Relative(primarySrcDir, f.dir) ELSE <<"up">> \o f.dir,
     name |-> IF f.ext \in Extensions THEN f.name ELSE f.name \o <<f.ext>>]

TestKey(f) ==
    [segs |-> IF IsPrefix(primaryTestDir, f.dir) THEN Relative(primaryTestDir, f.dir) ELSE <<"up">> \o f.dir,
     name |-> IF f.ext \in Extensions /\ Len(f.name) >= 2 /\ f.name[Len(f.name)] = "spec"
              THEN f.name
              ELSE (IF f.ext \in Extensions THEN f.name ELSE f.name \o <<f.ext>>) \o <<"spec">>]

(***************************************************************************)
(* Maps (JavaScript Map / Record) as functions with a varying domain.      *)
(***************************************************************************)
EmptyMap == [k \in {} |-> {}]

MapGet(m, k) == IF k \in DOMAIN m THEN m[k] ELSE {}

MapSet(m, k, v) == [x \in (DOMAIN m) \cup {k} |-> IF x = k THEN v ELSE m[x]]

MapDelete(m, k) == [x \in (DOMAIN m) \ {k} |-> m[x]]

\* a purge that deletes the key only and leaves the memberships
MapKeepMember(m, f) == m

\* for (const s of m.values()) s.delete(f)
MapPurgeMember(m, f) == [x \in DOMAIN m |-> m[x] \ {f}]

(***************************************************************************)
(* Dependency graph helpers.                                               *)
(***************************************************************************)
\* extractDependencies with resolveImport: the import targets of the file's
\* text that resolve to an existing file; empty when the file is missing
extractDependencies(f) ==
    IF f \notin disk THEN {} ELSE {g \in imports[f] : g \in disk}

\* the breadth-first walk of getFilesToRebuild over the reverse graph: a
\* dependent is queued only if it exists
RECURSIVE Walk(_, _, _)
Walk(rdg, frontier, visited) ==
    IF frontier = {} THEN visited
    ELSE LET seen == visited \cup frontier
             next == UNION {MapGet(rdg, v) \cap disk : v \in frontier}
         IN  Walk(rdg, next \ seen, seen)

getFilesToRebuild(rdg, all, changedFile) ==
    IF rebuildMode = "all" THEN all \cap disk
    ELSE Walk(rdg, {changedFile}, {}) \cap disk

getAffectedTests(rdg, all, sourceFile) ==
    {f \in getFilesToRebuild(rdg, all, sourceFile) : isTestFile(f) /\ f \in disk}

\* a buildDependencyGraph that leaves the old reverse edges in place
KeepOldReverseEdges(dg, rdg, f) == rdg

\* buildDependencyGraph, lines 262-268: drop the file from the reverse sets
\* of its old dependencies
RemoveOldReverseEdges(dg, rdg, f) ==
    [x \in DOMAIN rdg |-> IF x \in MapGet(dg, f) THEN rdg[x] \ {f} ELSE rdg[x]]

\* buildDependencyGraph, lines 273-278: add the file to the reverse set of
\* each new dependency, creating the set when missing
AddReverseEdges(rdg, f, newDeps) ==
    [x \in (DOMAIN rdg) \cup newDeps |->
        IF x \in newDeps THEN MapGet(rdg, x) \cup {f} ELSE rdg[x]]

(***************************************************************************)
(* The rebuild scheduler.  The synchronous parts of queueRebuild and       *)
(* rebuildAll are operators on a record m of the fields they read and      *)
(* write, so that a handler that calls queueRebuild several times is one   *)
(* step.  m.bad marks a choice of inputs the step cannot take.             *)
(***************************************************************************)
CallIds == 1..MaxCalls

FreeCall == [pc |-> "free", file |-> NoFile, awaits |-> 0, issuedIn |-> 0, drainedIn |-> 0,
             kind |-> ""]

RbIdle == [pc |-> "idle", pass |-> 0, batch |-> 0, failed |-> FALSE, changed |-> {},
           direct |-> {}, rebuilt |-> {},
           validSource |-> {}, validTest |-> {}, todo |-> {},
           cur |-> NoFile, newDeps |-> {}, entries |-> {}]

RbEnd(pcval, p) == [RbIdle EXCEPT !.pc = pcval, !.pass = p, !.failed = (pcval = "threw")]

\* a rebuildAll invocation that is inside a pass, suspended at an await
Running == {"bdg", "build", "retry"}

\* the bundler has been invoked and has not settled
Building == {"build", "retry"}

Max(S) == CHOOSE x \in S : \A y \in S : y <= x

InFlightPass(r) ==
    LET ps == {r[k].pass : k \in {j \in CallIds : r[j].pc \in Running}}
    IN  IF ps = {} THEN 0 ELSE Max(ps)

Pack ==
    [all |-> allFiles, queue |-> rebuildQueue, direct |-> directChanges,
     dg |-> dependencyGraph, rdg |-> reverseDependencyGraph,
     isReb |-> isRebuilding, promise |-> rebuildPromise,
     calls |-> calls, rb |-> rb, passNo |-> passNo,
     batch |-> 0, first |-> NoFile, used |-> FALSE, bad |-> FALSE]

Unpack(m) ==
    /\ allFiles' = m.all
    /\ rebuildQueue' = m.queue
    /\ directChanges' = m.direct
    /\ dependencyGraph' = m.dg
    /\ reverseDependencyGraph' = m.rdg
    /\ isRebuilding' = m.isReb
    /\ rebuildPromise' = m.promise
    /\ calls' = m.calls
    /\ rb' = m.rb
    /\ passNo' = m.passNo

\* a drain that keeps the queued paths that no longer exist
keepDeleted(files) == files

\* Array.from(set).filter(file => fs.existsSync(file)), lines 648-654 and
\* 658-664
filterExisting(files) == files \cap disk

validSourceFiles(rebuilt) == {f \in rebuilt : isSourceFile(f) /\ f \in disk}

validTestFiles(rebuilt) == {f \in rebuilt : isTestFile(f) /\ f \in disk}

\* rebuildAll, lines 644-706 and 255-270: one evaluation of the while
\* condition and the pass that follows up to its first await (inside
\* buildDependencyGraph), or the return when no pass is run.  m.first is the
\* file buildDependencyGraph takes first.
rebuildAllLoop(m, c) ==
    IF m.queue = {}
    THEN [m EXCEPT !.rb[c] = RbEnd("returned", m.rb[c].pass)]
    ELSE
    LET changedFiles == filterExisting(m.queue)
        directChangedFiles == filterExisting(m.direct)
        p == m.passNo + 1
        drained == [k \in CallIds |->
                      IF m.calls[k].pc # "free" /\ m.calls[k].drainedIn = 0
                         /\ m.calls[k].file \in m.queue
                      THEN [m.calls[k] EXCEPT !.drainedIn = p]
                      ELSE m.calls[k]]
        m1 == [m EXCEPT !.queue = {}, !.direct = {}, !.passNo = p, !.calls = drained]
        filesToRebuild ==
            UNION {getFilesToRebuild(m.rdg, m.all, f) : f \in changedFiles} \cap disk
        skip == \/ changedFiles = {}
                \/ filesToRebuild = {}
                \/ validSourceFiles(filesToRebuild) = {} /\ validTestFiles(filesToRebuild) = {}
    IN  IF skip
        THEN \* continue: the queue was just cleared, so the loop ends
             [m1 EXCEPT !.rb[c] = RbEnd("returned", p)]
        ELSE IF m.first \notin filesToRebuild
        THEN [m1 EXCEPT !.bad = TRUE]
        ELSE [m1 EXCEPT
                !.used = TRUE,
                !.rdg = RemoveOldReverseEdges(m.dg, m.rdg, m.first),
                !.rb[c] = [pc |-> "bdg", pass |-> p, batch |-> m.batch, failed |-> FALSE,
                           changed |-> changedFiles,
                           direct |-> directChangedFiles,
                           rebuilt |-> filesToRebuild,
                           validSource |-> validSourceFiles(filesToRebuild),
                           validTest |-> validTestFiles(filesToRebuild),
                           todo |-> filesToRebuild \ {m.first},
                           cur |-> m.first,
                           newDeps |-> extractDependencies(m.first),
                           entries |-> {}]]

FreeIds(cs) == {k \in CallIds : cs[k].pc = "free"}

\* queueRebuild without the wait on rebuildPromise and the isRebuilding test
queueRebuildUnguarded(m, filePath, changeType) ==
    IF changeType # "unlink" /\ filePath \notin disk
    THEN m
    ELSE IF FreeIds(m.calls) = {}
    THEN [m EXCEPT !.bad = TRUE]
    ELSE
    LET c == CHOOSE k \in FreeIds(m.calls) : \A j \in FreeIds(m.calls) : k <= j
        m1 == [m EXCEPT !.direct = @ \cup {filePath}, !.queue = @ \cup {filePath}]
        call == [pc |-> "wait5", file |-> filePath, awaits |-> c,
                 issuedIn |-> InFlightPass(m.rb), drainedIn |-> 0,
                 kind |-> changeType]
        m2 == rebuildAllLoop([m1 EXCEPT !.isReb = TRUE, !.calls[c] = call,
                                        !.rb[c] = RbIdle], c)
    IN  [m2 EXCEPT !.promise = c]

\* an addition to the rebuild queue alone
addToQueueOnly(m, filePath) == [m EXCEPT !.queue = @ \cup {filePath}]

\* queueRebuild, lines 620-621: the path is added to both sets
addChange(m, filePath) ==
    [m EXCEPT !.direct = @ \cup {filePath}, !.queue = @ \cup {filePath}]

\* queueRebuild, lines 611-639, up to its first await
queueRebuild(m, filePath, changeType) ==
    IF changeType # "unlink" /\ filePath \notin disk
    THEN m
    ELSE IF FreeIds(m.calls) = {}
    THEN [m EXCEPT !.bad = TRUE]
    ELSE
    LET c == CHOOSE k \in FreeIds(m.calls) : \A j \in FreeIds(m.calls) : k <= j
        m1 == addChange(m, filePath)
        call == [pc |-> "wait3", file |-> filePath, awaits |-> m.promise,
                 issuedIn |-> InFlightPass(m.rb), drainedIn |-> 0,
                 kind |-> changeType]
    IN  IF m1.promise # 0
        THEN [m1 EXCEPT !.calls[c] = call]
        ELSE IF ~m1.isReb
        THEN LET m2 == rebuildAllLoop(
                          [m1 EXCEPT !.isReb = TRUE,
                                     !.calls[c] = [call EXCEPT !.pc = "wait5", !.awaits = c],
                                     !.rb[c] = RbIdle], c)
             IN  [m2 EXCEPT !.promise = c]
        ELSE [m1 EXCEPT !.calls[c] = [call EXCEPT !.pc = "wait5", !.awaits = 0]]

\* files.forEach(f => this.queueRebuild(f, changeType)), in the given order
RECURSIVE queueRebuildEach(_, _, _)
queueRebuildEach(m, files, changeType) ==
    IF files = <<>> THEN m
    ELSE queueRebuildEach(queueRebuild(m, Head(files), changeType), Tail(files), changeType)

\* the orders in which a set can be iterated
Orders(S) == {s \in [1..Cardinality(S) -> S] : \A i, j \in DOMAIN s : i # j => s[i] # s[j]}

FirstChoices == Files \cup {NoFile}

\* a result that a step can produce: no call record was missing, and the
\* choice of m.first was used or was none
Feasible(m) == ~m.bad /\ (m.used \/ m.first = NoFile)

\* the possible results of queueing the files of S from state m, over the
\* iteration orders of S and of the set of files to rebuild
QueueAll(m, S, changeType) ==
    {r \in {queueRebuildEach([m EXCEPT !.first = first], ord, changeType) :
               first \in FirstChoices, ord \in Orders(S)} : Feasible(r)}

\* the possible results of evaluating the while condition of rebuildAll
LoopAll(m, c) ==
    {r \in {rebuildAllLoop([m EXCEPT !.first = first], c) : first \in FirstChoices} :
        Feasible(r)}

(***************************************************************************)
(* Messages and the bundler's input map.                                   *)
(***************************************************************************)
NoDir == <<>>

\* a watcher event; batch identifies the file-system operation it reports
Event(kind, f, d, b) == [kind |-> kind, file |-> f, dir |-> d, batch |-> b]

\* an HmrUpdate; hasTests is FALSE when affectedTests is undefined
HmrUpdate(strategy, outPath, hasContent, hasTests, tests) ==
    [type |-> strategy.type, path |-> outPath, content |-> hasContent,
     hasTests |-> hasTests, affectedTests |-> tests, reason |-> strategy.reason]

\* the file name rollup gives the entry with this key (entryFileNames)
OutputOfKey(k) == [segs |-> k.segs, name |-> k.name, ext |-> "js"]

\* ViteConfigBuilder.buildInputMap: existing source files, then existing test
\* files; a later entry replaces an earlier one with the same key
buildInputMap(srcFiles, testFiles) ==
    LET src == srcFiles \cap disk
        tst == testFiles \cap disk
        keys == {SrcKey(f) : f \in src} \cup {TestKey(f) : f \in tst}
    IN  [k \in keys |->
            IF \E f \in tst : TestKey(f) = k
            THEN CHOOSE f \in tst : TestKey(f) = k
            ELSE CHOOSE f \in src : SrcKey(f) = k]

\* ViteConfigBuilder.createViteConfigForFiles: the new value of inputMap
\* (entries of deleted files dropped, the new input merged in); the build
\* input is this map restricted to existing files, which is the map itself
createViteConfigForFiles(im, srcFiles, testFiles) ==
    LET newInput == buildInputMap(srcFiles, testFiles)
        kept == {k \in DOMAIN im : im[k] \in disk}
    IN  [k \in kept \cup DOMAIN newInput |->
            IF k \in DOMAIN newInput THEN newInput[k] ELSE im[k]]

\* ViteConfigBuilder.removeFromInputMap
removeFromInputMap(im, f) ==
    IF \E k \in DOMAIN im : im[k] = f
    THEN LET k0 == CHOOSE k \in DOMAIN im : im[k] = f
         IN  [k \in (DOMAIN im) \ {k0} |-> im[k]]
    ELSE im

RECURSIVE removeMultipleFromInputMap(_, _)
removeMultipleFromInputMap(im, fs) ==
    IF fs = {} THEN im
    ELSE LET f == CHOOSE x \in fs : TRUE
         IN  removeMultipleFromInputMap(removeFromInputMap(im, f), fs \ {f})

\* a set as a sequence, in a fixed order
RECURSIVE SetToSeq(_)
SetToSeq(S) ==
    IF S = {} THEN <<>>
    ELSE LET x == CHOOSE y \in S : TRUE IN <<x>> \o SetToSeq(S \ {x})

\* an emit loop that classifies the rebuilt files instead of the directly
\* changed ones
PassUpdatesByRebuilt(r, rdg, all, outs) ==
    LET strategy == determineUpdateStrategy(r.rebuilt, "change")
        affectedTests ==
            UNION {getAffectedTests(rdg, all, f) : f \in {g \in r.direct : isSourceFile(g)}}
        built == SetToSeq({f \in r.rebuilt : getOutputName(f) \in outs})
    IN  [i \in DOMAIN built |->
            HmrUpdate(strategy, getOutputName(built[i]), TRUE,
                      affectedTests # {}, affectedTests)]

\* an emit loop over the entries of the build instead of the rebuilt files
PassUpdatesForEntries(r, rdg, all, outs) ==
    LET strategy == determineUpdateStrategy(r.direct, "change")
        affectedTests ==
            UNION {getAffectedTests(rdg, all, f) : f \in {g \in r.direct : isSourceFile(g)}}
        built == SetToSeq({f \in r.entries : getOutputName(f) \in outs})
    IN  [i \in DOMAIN built |->
            HmrUpdate(strategy, getOutputName(built[i]), TRUE,
                      affectedTests # {}, affectedTests)]

\* rebuildAll, lines 747-769: the updates of a successful pass
PassUpdates(r, rdg, all, outs) ==
    LET strategy == determineUpdateStrategy(r.direct, "change")
        affectedTests ==
            UNION {getAffectedTests(rdg, all, f) : f \in {g \in r.direct : isSourceFile(g)}}
        built == SetToSeq({f \in r.rebuilt : getOutputName(f) \in outs})
    IN  [i \in DOMAIN built |->
            HmrUpdate(strategy, getOutputName(built[i]), TRUE,
                      affectedTests # {}, affectedTests)]

(***************************************************************************)
(* Initial state: the runner has built every source and spec file          *)
(* (ViteJasmineRunner.preprocess), constructed the manager and started     *)
(* the watcher with ignoreInitial, so allFiles and both graphs are empty.  *)
(***************************************************************************)
InitDisk == {FA, FT, FJ}

InitImports == [f \in Files |-> IF f = FT THEN {FA} ELSE IF f = FA THEN {FJ} ELSE {}]

\* the options of the default configuration: srcDirs ['./src'], testDirs
\* ['./tests'], the smart strategy and selective rebuilds
DefaultConfig ==
    [srcDir |-> <<"src">>, testDir |-> <<"tests">>,
     strategy |-> "smart", mode |-> "selective"]

NoClassify == [files |-> {}, changeType |-> "", policy |-> "", result |-> [type |-> "", reason |-> ""]]

ClientIds == 1..MaxClients

NoClient == [state |-> "none", greeted |-> FALSE, received |-> <<>>]

\* the WebSocketManager after enableHmr, before any connection
NoTransport == [clients |-> [c \in ClientIds |-> NoClient], sent |-> 0, closed |-> FALSE]

\* the HostAdapter after bindListeners
IdleAdapter == [queue |-> <<>>, isProcessing |-> FALSE, task |-> 0, log |-> <<>>, arrived |-> 0]

\* the page has created its WebSocketEventForwarder and called connect();
\* the child has not yet created its ProcessEventForwarder
NoForwarder ==
    [ws |-> [sock |-> "connecting", connected |-> FALSE, queue |-> <<>>, wire |-> <<>>,
             opens |-> 0],
     proc |-> [connected |-> TRUE, queue |-> <<>>, wire |-> <<>>,
               hook |-> "none", hostReady |-> FALSE],
     toChild |-> <<>>,
     produced |-> 0]

\* the two NodeTestRunner classes after construction
IdleRunner == [child |-> 0, alive |-> {}, spawned |-> 0, isRunning |-> FALSE, runs |-> 0,
               calls |-> <<>>, reported |-> <<>>]

\* no call of getFilesToRebuild is being followed
NoWalk == [start |-> NoFile, queue |-> <<>>, visited |-> {}, filesToRebuild |-> {},
           order |-> <<>>, iter |-> 0, done |-> TRUE]

HmrInitGraph(cfg, d, rdg, w, ops) ==
    /\ classifyLog = NoClassify
    /\ walk = w
    /\ transport = NoTransport
    /\ adapter = IdleAdapter
    /\ forwarder = NoForwarder
    /\ runner = IdleRunner
    /\ config = cfg
    /\ disk = d
    /\ imports = InitImports
    /\ inputMap = buildInputMap({f \in InitDisk : f.ext \in Extensions /\ ~isTestFile(f)},
                                {f \in InitDisk : f.ext \in Extensions /\ isTestFile(f)})
    /\ outFiles = {OutputOfKey(k) : k \in DOMAIN inputMap}
    /\ watcher = "on"
    /\ pendingEvents = {}
    /\ allFiles = {}
    /\ rebuildQueue = {}
    /\ directChanges = {}
    /\ dependencyGraph = EmptyMap
    /\ reverseDependencyGraph = rdg
    /\ isRebuilding = FALSE
    /\ rebuildPromise = 0
    /\ viteCache = 0
    /\ emitted = <<>>
    /\ calls = [k \in CallIds |-> FreeCall]
    /\ rb = [k \in CallIds |-> RbIdle]
    /\ passNo = 0
    /\ opsLeft = ops
    /\ fatalLeft = MaxFatal

HmrInitFor(cfg, d, ops) == HmrInitGraph(cfg, d, EmptyMap, NoWalk, ops)

HmrInitOn(d, ops) == HmrInitFor(DefaultConfig, d, ops)

HmrInitWith(ops) == HmrInitOn(InitDisk, ops)

\* the tags: output names of files, or none
NoTag == [segs |-> <<>>, name |-> <<>>, ext |-> ""]

\* the root suite (env.topSuite())
Root == 1

\* a node as the framework creates it: untagged, without children
Node(kind, hasSpecs, origin, gen) ==
    [kind |-> kind, tag |-> NoTag, children |-> <<>>, hasSpecs |-> hasSpecs,
     specs |-> <<>>, origin |-> origin, gen |-> gen]

NoLog == [file |-> NoTag, before |-> <<>>, after |-> <<>>]

HandlerIds == 1..MaxHandlers

IdleHandler == [pc |-> "idle", path |-> NoTag]

\* the host page before the runner has loaded anything; flat tells whether
\* the framework's suites hold a flat spec list
HostPage(flat, todo) ==
    /\ nodes = <<Node("suite", flat, NoTag, 0)>>
    /\ loader = [pc |-> IF todo = <<>> THEN "done" ELSE "import", todo |-> todo]
    /\ handlers = [h \in HandlerIds |-> IdleHandler]
    /\ inbox = <<>>
    /\ reloading = FALSE
    /\ detachLog = NoLog
    /\ server = [sent |-> 0, gone |-> {}]

InitWith(ops) == HmrInitWith(ops) /\ HostPage(FALSE, <<>>)

HmrInit == InitWith(MaxDiskOps)

(***************************************************************************)
(* The environment: other processes change the watched tree at any time;   *)
(* the watcher records an event for each change while it is open.          *)
(***************************************************************************)
Observe(evs) == IF watcher = "on" THEN pendingEvents \cup evs ELSE pendingEvents

DirExists(d) == \E f \in disk : UnderDir(f, d)

\* the import lists a file's text can be given
PossibleImports(f) ==
    IF f = FT THEN {{FA}, {FB}}
    ELSE IF f = FA THEN {{FJ}, {FB}}
    ELSE {{}}

\* a file is written: created (add, and addDir when its directory is new)
\* or modified (change)
DiskWrite(f, imps) ==
    /\ opsLeft > 0
    /\ Cardinality(pendingEvents) < MaxPending
    /\ imps \in PossibleImports(f)
    /\ opsLeft' = opsLeft - 1
    /\ disk' = disk \cup {f}
    /\ imports' = [imports EXCEPT ![f] = imps]
    /\ pendingEvents' =
          Observe(IF f \in disk THEN {Event("change", f, NoDir, opsLeft)}
                  ELSE {Event("add", f, NoDir, opsLeft)}
                       \cup {Event("addDir", NoFile, d, opsLeft) : d \in {x \in Dirs : x = f.dir /\ ~DirExists(x)}})
    /\ emitted' = <<>>
    /\ UNCHANGED <<config, outFiles, watcher, allFiles, rebuildQueue, directChanges,
                   dependencyGraph, reverseDependencyGraph, isRebuilding,
                   rebuildPromise, viteCache, inputMap, calls, rb, passNo, fatalLeft>>
    /\ UNCHANGED hostVars
    /\ UNCHANGED logVars
    /\ UNCHANGED bridgeVars

\* a file is deleted (unlink)
DiskDelete(f) ==
    /\ opsLeft > 0
    /\ Cardinality(pendingEvents) < MaxPending
    /\ f \in disk
    /\ opsLeft' = opsLeft - 1
    /\ disk' = disk \ {f}
    /\ imports' = [imports EXCEPT ![f] = {}]
    /\ pendingEvents' = Observe({Event("unlink", f, NoDir, opsLeft)})
    /\ emitted' = <<>>
    /\ UNCHANGED <<config, outFiles, watcher, allFiles, rebuildQueue, directChanges,
                   dependencyGraph, reverseDependencyGraph, isRebuilding,
                   rebuildPromise, viteCache, inputMap, calls, rb, passNo, fatalLeft>>
    /\ UNCHANGED hostVars
    /\ UNCHANGED logVars
    /\ UNCHANGED bridgeVars

\* a directory is deleted with the files in it (unlink for each file the
\* watcher tracked, and unlinkDir)
DiskDeleteDir(d) ==
    /\ opsLeft > 0
    /\ Cardinality(pendingEvents) < MaxPending
    /\ DirExists(d)
    /\ opsLeft' = opsLeft - 1
    /\ disk' = {f \in disk : ~UnderDir(f, d)}
    /\ imports' = [f \in Files |-> IF UnderDir(f, d) THEN {} ELSE imports[f]]
    /\ pendingEvents' = Observe({Event("unlinkDir", NoFile, d, opsLeft)}
                                \cup {Event("unlink", f, NoDir, opsLeft) : f \in {x \in disk : UnderDir(x, d)}})
    /\ emitted' = <<>>
    /\ UNCHANGED <<config, outFiles, watcher, allFiles, rebuildQueue, directChanges,
                   dependencyGraph, reverseDependencyGraph, isRebuilding,
                   rebuildPromise, viteCache, inputMap, calls, rb, passNo, fatalLeft>>
    /\ UNCHANGED hostVars
    /\ UNCHANGED logVars
    /\ UNCHANGED bridgeVars

(***************************************************************************)
(* Watcher handlers.  Each is the listener registered by start together    *)
(* with the callback it chains on operationQueue.                          *)
(***************************************************************************)
Batches == 1..(MaxDiskOps + MaxLiveOps + MaxStopOps)

\* The handler of an event of batch b can run now.  buildDependencyGraph
\* awaits nothing but resolved promises, so between its steps only the
\* callbacks already chained on operationQueue run: those of the events
\* emitted in the same turn as the event whose handler started the rebuild.
Delivering(b) ==
    /\ watcher \in {"on", "closing"}
    /\ \A c \in CallIds : rb[c].pc = "bdg" => rb[c].batch = b

\* the calls whose file is dropped from the queue by a removal
Dropped(cs, fs) ==
    [k \in CallIds |->
        IF cs[k].pc # "free" /\ cs[k].drainedIn = 0 /\ cs[k].file \in fs
        THEN [cs[k] EXCEPT !.drainedIn = -1]
        ELSE cs[k]]

\* watcher.on('change')
HandleChange(f, b) ==
    /\ Delivering(b)
    /\ Event("change", f, NoDir, b) \in pendingEvents
    /\ pendingEvents' = pendingEvents \ {Event("change", f, NoDir, b)}
    /\ \E r \in QueueAll([Pack EXCEPT !.batch = b], IF matchesFilter(f) THEN {f} ELSE {}, "change") : Unpack(r)
    /\ emitted' = <<>>
    /\ UNCHANGED <<config, disk, imports, outFiles, watcher, viteCache, inputMap,
                   opsLeft, fatalLeft>>
    /\ UNCHANGED hostVars
    /\ UNCHANGED logVars
    /\ UNCHANGED bridgeVars

\* watcher.on('add') and handleFileAdd
handleFileAdd(f, b) ==
    /\ Delivering(b)
    /\ Event("add", f, NoDir, b) \in pendingEvents
    /\ pendingEvents' = pendingEvents \ {Event("add", f, NoDir, b)}
    /\ IF matchesFilter(f) /\ f \notin allFiles
       THEN \E r \in QueueAll([Pack EXCEPT !.batch = b, !.all = @ \cup {f}], {f}, "add") : Unpack(r)
       ELSE Unpack(Pack)
    /\ emitted' = <<>>
    /\ UNCHANGED <<config, disk, imports, outFiles, watcher, viteCache, inputMap,
                   opsLeft, fatalLeft>>
    /\ UNCHANGED hostVars
    /\ UNCHANGED logVars
    /\ UNCHANGED bridgeVars

\* watcher.on('unlink') and handleFileRemove
handleFileRemove(f, b) ==
    /\ Delivering(b)
    /\ Event("unlink", f, NoDir, b) \in pendingEvents
    /\ pendingEvents' = pendingEvents \ {Event("unlink", f, NoDir, b)}
    /\ IF matchesFilter(f)
       THEN LET affectedFiles == MapGet(reverseDependencyGraph, f) \cap disk
                strategy == determineUpdateStrategy({f}, "unlink")
                m == [Pack EXCEPT
                        !.batch = b,
                        !.queue = @ \ {f},
                        !.direct = @ \ {f},
                        !.calls = Dropped(@, {f}),
                        !.all = @ \ {f},
                        !.dg = MapPurgeMember(MapDelete(@, f), f),
                        !.rdg = MapPurgeMember(MapDelete(@, f), f)]
            IN  /\ inputMap' = removeFromInputMap(inputMap, f)
                /\ outFiles' = outFiles \ {getOutputName(f)}
                /\ emitted' = <<HmrUpdate(strategy, getOutputName(f), FALSE, isSourceFile(f),
                                          {t \in affectedFiles : isTestFile(t)})>>
                /\ \E r \in QueueAll(m, IF rebuildMode = "selective" THEN affectedFiles ELSE {},
                                     "change") : Unpack(r)
       ELSE /\ emitted' = <<>>
            /\ Unpack(Pack)
            /\ UNCHANGED <<inputMap, outFiles>>
    /\ UNCHANGED <<config, disk, imports, watcher, viteCache, opsLeft, fatalLeft>>
    /\ UNCHANGED hostVars
    /\ UNCHANGED logVars
    /\ UNCHANGED bridgeVars

\* watcher.on('addDir') and handleDirectoryAdd
handleDirectoryAdd(d, b) ==
    /\ Delivering(b)
    /\ Event("addDir", NoFile, d, b) \in pendingEvents
    /\ pendingEvents' = pendingEvents \ {Event("addDir", NoFile, d, b)}
    /\ LET newFiles == {f \in disk : UnderDir(f, d) /\ matchesFilter(f)}
           filesToProcess == newFiles \ allFiles
           strategy == determineUpdateStrategy(filesToProcess, "addDir")
       IN  /\ emitted' = IF filesToProcess # {}
                         THEN <<HmrUpdate(strategy, DirOutput(d), FALSE, FALSE, {})>>
                         ELSE <<>>
           /\ \E r \in QueueAll([Pack EXCEPT !.batch = b, !.all = @ \cup filesToProcess],
                                filesToProcess, "add") : Unpack(r)
    /\ UNCHANGED <<config, disk, imports, outFiles, watcher, viteCache, inputMap,
                   opsLeft, fatalLeft>>
    /\ UNCHANGED hostVars
    /\ UNCHANGED logVars
    /\ UNCHANGED bridgeVars

\* the per-file loop of handleDirectoryRemove, lines 568-584
RECURSIVE PurgeFiles(_, _)
PurgeFiles(g, fs) ==
    IF fs = {} THEN g
    ELSE LET f == CHOOSE x \in fs : TRUE
         IN  PurgeFiles(MapPurgeMember(MapDelete(g, f), f), fs \ {f})

\* watcher.on('unlinkDir') and handleDirectoryRemove
handleDirectoryRemove(d, b) ==
    /\ Delivering(b)
    /\ Event("unlinkDir", NoFile, d, b) \in pendingEvents
    /\ pendingEvents' = pendingEvents \ {Event("unlinkDir", NoFile, d, b)}
    /\ LET removedFiles == {f \in allFiles : UnderDir(f, d)}
           affectedFiles == UNION {MapGet(reverseDependencyGraph, f) : f \in removedFiles} \cap disk
           strategy == determineUpdateStrategy(removedFiles, "unlinkDir")
           m == [Pack EXCEPT
                   !.batch = b,
                   !.queue = @ \ removedFiles,
                   !.direct = @ \ removedFiles,
                   !.calls = Dropped(@, removedFiles),
                   !.all = @ \ removedFiles,
                   !.dg = PurgeFiles(@, removedFiles),
                   !.rdg = PurgeFiles(@, removedFiles)]
       IN  /\ inputMap' = removeMultipleFromInputMap(inputMap, removedFiles)
           /\ emitted' = <<HmrUpdate(strategy, DirOutput(d), FALSE, TRUE,
                                     {t \in affectedFiles : isTestFile(t)})>>
           /\ \E r \in QueueAll(m, IF rebuildMode = "selective" THEN affectedFiles ELSE {},
                                "change") : Unpack(r)
    /\ UNCHANGED <<config, disk, imports, outFiles, watcher, viteCache,
                   opsLeft, fatalLeft>>
    /\ UNCHANGED hostVars
    /\ UNCHANGED logVars
    /\ UNCHANGED bridgeVars

(***************************************************************************)
(* Continuations of rebuildAll after each of its awaits.                   *)
(***************************************************************************)
\* the state after the awaited extractDependencies of rb[c].cur resolves:
\* buildDependencyGraph lines 271-278
InstallDeps(m, c) ==
    [m EXCEPT !.dg = MapSet(@, m.rb[c].cur, m.rb[c].newDeps),
              !.rdg = AddReverseEdges(@, m.rb[c].cur, m.rb[c].newDeps)]

\* buildDependencyGraph resumes, installs the edges of the current file and
\* takes the next file up to its await
BdgNextFile(c, nxt) ==
    /\ rb[c].pc = "bdg"
    /\ nxt \in rb[c].todo
    /\ LET m == InstallDeps(Pack, c)
       IN  Unpack([m EXCEPT
                     !.rdg = RemoveOldReverseEdges(m.dg, @, nxt),
                     !.rb[c].cur = nxt,
                     !.rb[c].newDeps = extractDependencies(nxt),
                     !.rb[c].todo = @ \ {nxt}])
    /\ emitted' = <<>>
    /\ UNCHANGED <<config, disk, imports, outFiles, watcher, pendingEvents,
                   viteCache, inputMap, opsLeft, fatalLeft>>
    /\ UNCHANGED hostVars
    /\ UNCHANGED logVars
    /\ UNCHANGED bridgeVars

\* buildDependencyGraph resumes for its last file and returns; rebuildAll
\* prepares the bundler input and invokes the bundler (lines 709-719)
BdgDone(c) ==
    /\ rb[c].pc = "bdg"
    /\ rb[c].todo = {}
    /\ LET m == InstallDeps(Pack, c)
           im == createViteConfigForFiles(inputMap, rb[c].validSource, rb[c].validTest)
       IN  /\ inputMap' = im
           /\ Unpack([m EXCEPT !.rb[c].pc = "build",
                               !.rb[c].cur = NoFile,
                               !.rb[c].newDeps = {},
                               !.rb[c].entries = {im[k] : k \in DOMAIN im}])
    /\ emitted' = <<>>
    /\ UNCHANGED <<config, disk, imports, outFiles, watcher, pendingEvents,
                   viteCache, opsLeft, fatalLeft>>
    /\ UNCHANGED hostVars
    /\ UNCHANGED logVars
    /\ UNCHANGED bridgeVars

\* the bundler's outputs for the input map it was given
Outputs(im) == {OutputOfKey(k) : k \in DOMAIN im}

\* lines 720 and 747-788, then the next evaluation of the while condition
BuildSucceeded(c) ==
    LET outs == outFiles \cup Outputs(inputMap)
    IN  /\ outFiles' = outs
        /\ viteCache' = rb[c].pass
        /\ emitted' = PassUpdates(rb[c], reverseDependencyGraph, allFiles, outs)
        /\ \E r \in LoopAll(Pack, c) : Unpack(r)
        /\ UNCHANGED <<config, disk, imports, watcher, pendingEvents, inputMap,
                       opsLeft, fatalLeft>>
        /\ UNCHANGED hostVars
        /\ UNCHANGED logVars
        /\ UNCHANGED bridgeVars

\* the bundler resolves
BuildOk(c) ==
    /\ rb[c].pc = "build"
    /\ rb[c].entries \subseteq disk
    /\ BuildSucceeded(c)

\* the bundler rejects with UNRESOLVED_ENTRY: an entry was deleted; lines
\* 724-740
BuildUnresolved(c) ==
    /\ rb[c].pc = "build"
    /\ ~(rb[c].entries \subseteq disk)
    /\ LET finalSourceFiles == rb[c].validSource \cap disk
           finalTestFiles == rb[c].validTest \cap disk
           im == createViteConfigForFiles(inputMap, finalSourceFiles, finalTestFiles)
       IN  IF finalSourceFiles = {} /\ finalTestFiles = {}
           THEN /\ \E r \in LoopAll(Pack, c) : Unpack(r)
                /\ UNCHANGED inputMap
           ELSE /\ inputMap' = im
                /\ Unpack([Pack EXCEPT !.rb[c].pc = "retry",
                                       !.rb[c].entries = {im[k] : k \in DOMAIN im}])
    /\ emitted' = <<>>
    /\ UNCHANGED <<config, disk, imports, outFiles, watcher, pendingEvents,
                   viteCache, opsLeft, fatalLeft>>
    /\ UNCHANGED hostVars
    /\ UNCHANGED logVars
    /\ UNCHANGED bridgeVars

\* a rebuildAll that emits the updates of the pass before the bundler
\* has settled
BuildFatalAfterEmit(c) ==
    /\ rb[c].pc = "build"
    /\ fatalLeft > 0
    /\ fatalLeft' = fatalLeft - 1
    /\ rb' = [rb EXCEPT ![c] = RbEnd("threw", rb[c].pass)]
    /\ emitted' = PassUpdates(rb[c], reverseDependencyGraph, allFiles, outFiles)
    /\ UNCHANGED <<config, disk, imports, outFiles, watcher, pendingEvents, allFiles,
                   rebuildQueue, directChanges, dependencyGraph, reverseDependencyGraph,
                   isRebuilding, rebuildPromise, viteCache, inputMap, calls, passNo,
                   opsLeft>>
    /\ UNCHANGED hostVars
    /\ UNCHANGED logVars
    /\ UNCHANGED bridgeVars

\* the bundler rejects with another error: line 743, then 789-792
BuildFatal(c) ==
    /\ rb[c].pc = "build"
    /\ fatalLeft > 0
    /\ fatalLeft' = fatalLeft - 1
    /\ rb' = [rb EXCEPT ![c] = RbEnd("threw", rb[c].pass)]
    /\ emitted' = <<>>
    /\ UNCHANGED <<config, disk, imports, outFiles, watcher, pendingEvents, allFiles,
                   rebuildQueue, directChanges, dependencyGraph, reverseDependencyGraph,
                   isRebuilding, rebuildPromise, viteCache, inputMap, calls, passNo,
                   opsLeft>>
    /\ UNCHANGED hostVars
    /\ UNCHANGED logVars
    /\ UNCHANGED bridgeVars

\* the retried bundler call resolves
RetryOk(c) ==
    /\ rb[c].pc = "retry"
    /\ rb[c].entries \subseteq disk
    /\ BuildSucceeded(c)

\* a rejected retry that is retried again
RetryAgain(c) ==
    /\ rb[c].pc = "retry"
    /\ ~(rb[c].entries \subseteq disk)
    /\ rb' = [rb EXCEPT ![c].pc = "build"]
    /\ emitted' = <<>>
    /\ UNCHANGED <<config, disk, imports, outFiles, watcher, pendingEvents, allFiles,
                   rebuildQueue, directChanges, dependencyGraph, reverseDependencyGraph,
                   isRebuilding, rebuildPromise, viteCache, inputMap, calls, passNo,
                   opsLeft, fatalLeft>>
    /\ UNCHANGED hostVars
    /\ UNCHANGED logVars
    /\ UNCHANGED bridgeVars

\* the retried bundler call rejects (line 740 is outside the inner try)
RetryFail(c) ==
    /\ rb[c].pc = "retry"
    /\ \/ ~(rb[c].entries \subseteq disk) /\ UNCHANGED fatalLeft
       \/ fatalLeft > 0 /\ fatalLeft' = fatalLeft - 1
    /\ rb' = [rb EXCEPT ![c] = RbEnd("threw", rb[c].pass)]
    /\ emitted' = <<>>
    /\ UNCHANGED <<config, disk, imports, outFiles, watcher, pendingEvents, allFiles,
                   rebuildQueue, directChanges, dependencyGraph, reverseDependencyGraph,
                   isRebuilding, rebuildPromise, viteCache, inputMap, calls, passNo,
                   opsLeft>>
    /\ UNCHANGED hostVars
    /\ UNCHANGED logVars
    /\ UNCHANGED bridgeVars

\* a finally that leaves isRebuilding set
FinallyKeepsFlag(c) ==
    /\ rb[c].pc \in {"returned", "threw"}
    /\ rebuildPromise' = 0
    /\ rb' = [rb EXCEPT ![c].pc = "settled"]
    /\ emitted' = <<>>
    /\ UNCHANGED <<config, disk, imports, outFiles, watcher, pendingEvents, allFiles,
                   rebuildQueue, directChanges, dependencyGraph, reverseDependencyGraph,
                   isRebuilding, viteCache, inputMap, calls, passNo, opsLeft, fatalLeft>>
    /\ UNCHANGED hostVars
    /\ UNCHANGED logVars
    /\ UNCHANGED bridgeVars

\* queueRebuild lines 630-636: the catch and finally chained on rebuildAll()
Finally(c) ==
    /\ rb[c].pc \in {"returned", "threw"}
    /\ isRebuilding' = FALSE
    /\ rebuildPromise' = 0
    /\ rb' = [rb EXCEPT ![c].pc = "settled"]
    /\ emitted' = <<>>
    /\ UNCHANGED <<config, disk, imports, outFiles, watcher, pendingEvents, allFiles,
                   rebuildQueue, directChanges, dependencyGraph, reverseDependencyGraph,
                   viteCache, inputMap, calls, passNo, opsLeft, fatalLeft>>
    /\ UNCHANGED hostVars
    /\ UNCHANGED logVars
    /\ UNCHANGED bridgeVars

\* a promise of the chain has settled
Settled(r, p) == IF p = 0 THEN TRUE ELSE r[p].pc = "settled"

\* rebuildAll() with no catch chained on it: the promise is rejected when
\* rebuildAll threw
withoutCatch(failed) == failed

\* line 630: whether rebuildAll().catch(...) is rejected; the handler logs,
\* emits hmr:error and returns
catchRebuildError(failed) == FALSE

\* the settled promise of the chain is rejected (awaiting null is not)
Rejected(r, p) == IF p = 0 THEN FALSE ELSE catchRebuildError(r[p].failed)

\* queueRebuild after line 625 that does not await the running rebuild
queueRebuildResumeNoWait(m, k) ==
    IF ~m.isReb
    THEN LET m2 == rebuildAllLoop(
                      [m EXCEPT !.isReb = TRUE,
                                !.calls[k].pc = "wait5",
                                !.calls[k].awaits = k,
                                !.rb[k] = RbIdle], k)
         IN  [m2 EXCEPT !.promise = k]
    ELSE [m EXCEPT !.calls[k].pc = "wait5", !.calls[k].awaits = 0]

\* queueRebuild after line 625: lines 628-639 up to the await
queueRebuildResume(m, k) ==
    IF ~m.isReb
    THEN LET m2 == rebuildAllLoop(
                      [m EXCEPT !.isReb = TRUE,
                                !.calls[k].pc = "wait5",
                                !.calls[k].awaits = k,
                                !.rb[k] = RbIdle], k)
         IN  [m2 EXCEPT !.promise = k]
    ELSE [m EXCEPT !.calls[k].pc = "wait5", !.calls[k].awaits = m.promise]

\* queueRebuild resumes after line 625
Resume3(k) ==
    /\ calls[k].pc = "wait3"
    /\ Settled(rb, calls[k].awaits)
    /\ IF Rejected(rb, calls[k].awaits)
       THEN Unpack([Pack EXCEPT !.calls[k].pc = "rejected"])
       ELSE \E first \in FirstChoices :
               LET r == queueRebuildResume([Pack EXCEPT !.first = first], k)
               IN  Feasible(r) /\ Unpack(r)
    /\ emitted' = <<>>
    /\ UNCHANGED <<config, disk, imports, outFiles, watcher, pendingEvents,
                   viteCache, inputMap, opsLeft, fatalLeft>>
    /\ UNCHANGED hostVars
    /\ UNCHANGED logVars
    /\ UNCHANGED bridgeVars

\* queueRebuild resumes after line 639 and its promise resolves
Resume5(k) ==
    /\ calls[k].pc = "wait5"
    /\ Settled(rb, calls[k].awaits)
    /\ calls' = [calls EXCEPT ![k].pc = IF Rejected(rb, calls[k].awaits)
                                        THEN "rejected" ELSE "done"]
    /\ emitted' = <<>>
    /\ UNCHANGED <<config, disk, imports, outFiles, watcher, pendingEvents, allFiles,
                   rebuildQueue, directChanges, dependencyGraph, reverseDependencyGraph,
                   isRebuilding, rebuildPromise, viteCache, inputMap, rb, passNo,
                   opsLeft, fatalLeft>>
    /\ UNCHANGED hostVars
    /\ UNCHANGED logVars
    /\ UNCHANGED bridgeVars

(***************************************************************************)
(* stop: the watcher is closed, then both graphs are cleared.              *)
(***************************************************************************)
StopBegin ==
    /\ watcher = "on"
    /\ watcher' = "closing"
    /\ emitted' = <<>>
    /\ UNCHANGED <<config, disk, imports, outFiles, pendingEvents, allFiles,
                   rebuildQueue, directChanges, dependencyGraph, reverseDependencyGraph,
                   isRebuilding, rebuildPromise, viteCache, inputMap, calls, rb, passNo,
                   opsLeft, fatalLeft>>
    /\ UNCHANGED hostVars
    /\ UNCHANGED logVars
    /\ UNCHANGED bridgeVars

StopEnd ==
    /\ watcher = "closing"
    /\ watcher' = "off"
    /\ pendingEvents' = {}
    /\ dependencyGraph' = EmptyMap
    /\ reverseDependencyGraph' = EmptyMap
    /\ emitted' = <<>>
    /\ UNCHANGED <<config, disk, imports, outFiles, allFiles, rebuildQueue,
                   directChanges, isRebuilding, rebuildPromise, viteCache, inputMap,
                   calls, rb, passNo, opsLeft, fatalLeft>>
    /\ UNCHANGED hostVars
    /\ UNCHANGED logVars
    /\ UNCHANGED bridgeVars

(***************************************************************************)
(* The orchestrator's specification.                                       *)
(***************************************************************************)
Environment ==
    \/ \E f \in Files : \E imps \in PossibleImports(f) : DiskWrite(f, imps)
    \/ \E f \in Files : DiskDelete(f)
    \/ \E d \in Dirs : DiskDeleteDir(d)

Handlers ==
    \/ \E f \in Files, b \in Batches : HandleChange(f, b)
    \/ \E f \in Files, b \in Batches : handleFileAdd(f, b)
    \/ \E f \in Files, b \in Batches : handleFileRemove(f, b)
    \/ \E d \in Dirs, b \in Batches : handleDirectoryAdd(d, b)
    \/ \E d \in Dirs, b \in Batches : handleDirectoryRemove(d, b)

Rebuild ==
    \/ \E c \in CallIds, nxt \in Files : BdgNextFile(c, nxt)
    \/ \E c \in CallIds : BdgDone(c)
    \/ \E c \in CallIds : BuildOk(c)
    \/ \E c \in CallIds : BuildUnresolved(c)
    \/ \E c \in CallIds : BuildFatal(c)
    \/ \E c \in CallIds : RetryOk(c)
    \/ \E c \in CallIds : RetryFail(c)
    \/ \E c \in CallIds : Finally(c)
    \/ \E k \in CallIds : Resume3(k)
    \/ \E k \in CallIds : Resume5(k)

Next == Environment \/ Handlers \/ Rebuild

vars == <<hmrVars, hostVars, logVars, bridgeVars>>

Spec == HmrInit /\ [][Next]_vars

\* the same with a shutdown (ViteJasmineRunner.cleanup calls stop)
NextWithStop == Next \/ StopBegin \/ StopEnd

SpecWithStop == InitWith(MaxStopOps) /\ [][NextWithStop]_vars

\* the event loop runs every continuation that is ready, and every bundler
\* call terminates
LiveSpec == InitWith(MaxLiveOps) /\ [][Next]_vars /\ WF_vars(Rebuild)

(***************************************************************************)
(* Properties of the rebuild scheduler.                                    *)
(***************************************************************************)
\* the rebuildAll invocations that are inside a pass
InPass == {c \in CallIds : rb[c].pc \in Running}

\* C1: at most one rebuild pass executes at a time, so the bundler is never
\* invoked while an earlier invocation has not settled.
C1_AtMostOneRebuild == Cardinality(InPass) <= 1

\* C1 witness: changes arrived during a pass, and the bundler runs for a
\* later pass while a further call is waiting for it.
C1_Witness ==
    /\ \E c \in CallIds : rb[c].pc \in Building /\ rb[c].pass >= 2
    /\ \E k \in CallIds : calls[k].pc = "wait3" /\ calls[k].issuedIn >= 2

\* the pass with this number has completed
PassCompleted(p) == p <= passNo /\ \A c \in InPass : rb[c].pass # p

\* C2: a call issued while pass p is in flight has its file drained by pass
\* p + 1 (together with every other call issued during p), and its promise
\* resolves only once the pass that drained it has completed.
C2_OneTrailingPass ==
    \A k \in CallIds :
        calls[k].pc # "free" =>
            /\ calls[k].issuedIn > 0 =>
                  calls[k].drainedIn \in {0, -1, calls[k].issuedIn + 1}
            /\ calls[k].pc = "done" =>
                  /\ calls[k].drainedIn # 0
                  /\ calls[k].drainedIn > 0 => PassCompleted(calls[k].drainedIn)

\* C2 witness: two calls were issued during the same pass, one further pass
\* drained both, and both promises have resolved.
C2_Witness ==
    \E j, k \in CallIds :
        /\ j # k
        /\ calls[j].pc = "done" /\ calls[k].pc = "done"
        /\ calls[j].issuedIn > 0 /\ calls[k].issuedIn = calls[j].issuedIn
        /\ calls[j].drainedIn = calls[j].issuedIn + 1
        /\ calls[k].drainedIn = calls[j].drainedIn
        /\ calls[j].file # calls[k].file

\* C3: no queued change is lost: a file in the rebuild queue is eventually
\* taken out of it, by a rebuild pass or by the removal of the file.
C3_NoChangeLost == \A f \in Files : (f \in rebuildQueue) ~> (f \notin rebuildQueue)

\* C3 witness: a file queued during a pass that ended in a bundler failure
\* was drained by the pass after it.
C3_Witness ==
    \E k, c \in CallIds :
        /\ rb[c].failed
        /\ calls[k].issuedIn = rb[c].pass
        /\ calls[k].drainedIn = rb[c].pass + 1
        /\ calls[k].file \in disk

\* a rebuildAll has failed and its chain has settled, and no rebuildAll is
\* running
AfterFailure ==
    /\ \E c \in CallIds : rb[c].pc = "settled" /\ rb[c].failed
    /\ \A c \in CallIds : rb[c].pc \in {"idle", "settled"}

\* the step makes a queueRebuild call for a file that exists
QueuesExisting ==
    \E k \in CallIds : calls[k].pc = "free" /\ calls'[k].pc # "free" /\ calls'[k].file \in disk

\* C19: a rebuild failure does not wedge the scheduler: no queueRebuild
\* call is rejected; the step that settles a failed rebuild resets
\* isRebuilding and rebuildPromise; and after a failure, the next
\* queueRebuild for an existing file starts a new pass at once.
C19_FailureDoesNotWedge ==
    /\ [](\A k \in CallIds : calls[k].pc # "rejected")
    /\ [][\A c \in CallIds :
            rb[c].pc = "threw" /\ rb'[c].pc = "settled"
                => ~isRebuilding' /\ rebuildPromise' = 0]_vars
    /\ [][AfterFailure /\ QueuesExisting
            => /\ passNo' = passNo + 1
               /\ isRebuilding'
               /\ \E k \in CallIds :
                     /\ calls[k].pc = "free"
                     /\ calls'[k].awaits = k
                     /\ rebuildPromise' = k
                     /\ rb'[k].pass = passNo']_vars

\* C19 witness: a rebuild failed, and a queueRebuild call made after the
\* failure had settled started a pass of its own, which completed, and the
\* call has resolved.
C19_Witness ==
    \E c, k \in CallIds :
        /\ rb[c].pc = "settled" /\ rb[c].failed
        /\ calls[c].pc = "done"
        /\ k # c
        /\ calls[k].pc = "done"
        /\ calls[k].issuedIn = 0
        /\ calls[k].awaits = k
        /\ calls[k].drainedIn > rb[c].pass
        /\ rb[k].pc = "settled" /\ ~rb[k].failed
        /\ viteCache = calls[k].drainedIn
        /\ ~isRebuilding /\ rebuildPromise = 0

\* rebuildAll invocation c takes a step of its pass that does not complete
\* the pass: the pass goes on, or it ends in a failure
PassStepWithoutSuccess(c) ==
    /\ rb[c].pc \in Running
    /\ rb'[c] # rb[c]
    /\ \/ rb'[c].pc \in Running /\ rb'[c].pass = rb[c].pass
       \/ rb'[c].pc = "threw"

\* C18: a pass that ends in a bundler failure emits no update: no step of
\* a pass emits anything unless the bundler has resolved for that pass, and
\* the step in which a pass fails emits nothing.
C18_FailedPassEmitsNothing ==
    [][\A c \in CallIds : PassStepWithoutSuccess(c) => emitted' = <<>>]_vars

\* C18 witness: a pass whose files have outputs from an earlier build ended
\* in a bundler failure, and nothing was emitted.
C18_Witness ==
    \E c \in CallIds :
        /\ rb[c].pc = "threw"
        /\ rb[c].failed
        /\ rb[c].pass >= 2
        /\ viteCache >= 1
        /\ outFiles # {}
        /\ emitted = <<>>

(***************************************************************************)
(* Properties of the dependency graph.                                     *)
(***************************************************************************)
\* the files the graph refers to, as keys or as set members
Referenced(g) == (DOMAIN g) \cup UNION {g[k] : k \in DOMAIN g}

Symmetric(dg, rdg) ==
    \A a, b \in Files : (b \in MapGet(dg, a)) <=> (a \in MapGet(rdg, b))

\* buildDependencyGraph is suspended between two of its steps
MidGraphRebuild == \E c \in CallIds : rb[c].pc = "bdg"

Quiescent == pendingEvents = {} /\ ~isRebuilding /\ watcher = "on"

\* C5: once the events have been processed, every file that is a key or a
\* set member of either map exists on disk.
C5_NoDanglingEdges ==
    Quiescent =>
        Referenced(dependencyGraph) \cup Referenced(reverseDependencyGraph) \subseteq disk

(***************************************************************************)
(* The host page (the HMRClient script of html-generator.ts).  The suite   *)
(* tree of the framework is the sequence nodes: node i is nodes[i], its    *)
(* child list holds node numbers, and a node that is dropped from every    *)
(* list stays in the sequence as an unreachable object.  origin and gen    *)
(* record which module evaluation created the node; the code does not see  *)
(* them.                                                                   *)
(***************************************************************************)

\* the nodes reachable from node s through the child lists
RECURSIVE Descendants(_, _)
Descendants(ns, s) ==
    {s} \cup UNION {Descendants(ns, ns[s].children[i]) : i \in DOMAIN ns[s].children}

Reachable(ns) == Descendants(ns, Root)

\* setFilePath: define _filePath on the object
setFilePath(ns, i, filePath) == [ns EXCEPT ![i].tag = filePath]

\* tagSuites: tag the node if it has no tag, then its children in order
RECURSIVE tagSuites(_, _, _)
RECURSIVE tagEach(_, _, _)
tagSuites(ns, suite, filePath) ==
    LET ns1 == IF ns[suite].tag = NoTag THEN setFilePath(ns, suite, filePath) ELSE ns
    IN  tagEach(ns1, ns[suite].children, filePath)

tagEach(ns, children, filePath) ==
    IF children = <<>> THEN ns
    ELSE tagEach(tagSuites(ns, Head(children), filePath), Tail(children), filePath)

\* a tagging that assigns the path to every node below the root, tagged or not
attachOverwriting(ns, filePath) ==
    [i \in DOMAIN ns |->
        IF i \in Descendants(ns, Root) THEN [ns[i] EXCEPT !.tag = filePath] ELSE ns[i]]

\* attachFilePathToSuites: tagSuites from the root suite
attachFilePathToSuites(ns, filePath) == tagSuites(ns, Root, filePath)

\* cleanSuite: a child tagged filePath is skipped with its whole branch, any
\* other child that has a child list is cleaned first and kept; then the
\* child list is replaced and the flat spec list, if there is one, filtered
RECURSIVE cleanSuite(_, _, _)
RECURSIVE cleanEach(_, _, _)
cleanSuiteAlsoUntagged(ns, suite, filePath) ==
    LET ns1 == cleanEach(ns, ns[suite].children, filePath)
        keep == SelectSeq(ns[suite].children, LAMBDA c : ns[c].tag \notin {filePath, NoTag})
    IN  [ns1 EXCEPT ![suite].children = keep]

cleanSuite(ns, suite, filePath) ==
    LET ns1 == cleanEach(ns, ns[suite].children, filePath)
        keep == SelectSeq(ns[suite].children, LAMBDA c : ns[c].tag # filePath)
    IN  [ns1 EXCEPT ![suite].children = keep,
                    ![suite].specs = IF ns[suite].hasSpecs
                                     THEN SelectSeq(@, LAMBDA c : ns[c].tag # filePath)
                                     ELSE @]

cleanEach(ns, children, filePath) ==
    IF children = <<>> THEN ns
    ELSE LET child == Head(children)
         IN  cleanEach(IF ns[child].tag # filePath /\ ns[child].kind = "suite"
                       THEN cleanSuite(ns, child, filePath)
                       ELSE ns,
                       Tail(children), filePath)

\* detachFilePathSuites: cleanSuite from the root suite
detachFilePathSuites(ns, filePath) == cleanSuite(ns, Root, filePath)

\* hotUpdateSpec: detach, then attach
hotUpdateSpec(ns, filePath) ==
    attachFilePathToSuites(detachFilePathSuites(ns, filePath), filePath)

DetachLog(ns, filePath) ==
    [file |-> filePath, before |-> ns, after |-> detachFilePathSuites(ns, filePath)]

(***************************************************************************)
(* detachFilePathSuites as a function of the tree: it is applied to every  *)
(* tree of MaxTreeNodes nodes, every assignment of kinds and of tags.      *)
(***************************************************************************)
TestFiles == {FT, FU}

\* the tags the host gives: the output names of the spec files
TagPaths == {getOutputName(f) : f \in TestFiles}

TreeIds == 1..MaxTreeNodes

\* the numbers in S in increasing order
RECURSIVE Ascending(_)
Ascending(S) ==
    IF S = {} THEN <<>>
    ELSE LET x == CHOOSE y \in S : \A z \in S : y <= z
         IN  <<x>> \o Ascending(S \ {x})

\* the tree in which parent[i] is the parent of node i
TreeOf(parent, kind, tag, flat) ==
    [i \in TreeIds |->
        LET kids == Ascending({j \in TreeIds \ {Root} : parent[j] = i})
        IN  [kind |-> kind[i], tag |-> tag[i], children |-> kids,
             hasSpecs |-> flat /\ kind[i] = "suite",
             specs |-> IF flat /\ kind[i] = "suite"
                       THEN SelectSeq(kids, LAMBDA c : kind[c] = "spec")
                       ELSE <<>>,
             origin |-> tag[i], gen |-> 0]]

ArbitraryTrees ==
    {TreeOf(parent, kind, tag, flat) :
        parent \in {p \in [TreeIds \ {Root} -> TreeIds] : \A j \in TreeIds \ {Root} : p[j] < j},
        kind \in {k \in [TreeIds -> {"suite", "spec"}] : k[Root] = "suite"},
        tag \in [TreeIds -> TagPaths \cup {NoTag}],
        flat \in BOOLEAN}

WellFormed(ns) == \A i \in DOMAIN ns : ns[i].kind = "spec" => ns[i].children = <<>>

DetachInit ==
    /\ HmrInitOn(InitDisk \cup {FU}, 0)
    /\ nodes \in {t \in ArbitraryTrees : WellFormed(t)}
    /\ loader = [pc |-> "done", todo |-> <<>>]
    /\ handlers = [h \in HandlerIds |-> IdleHandler]
    /\ inbox = <<>>
    /\ reloading = FALSE
    /\ detachLog = NoLog
    /\ server = [sent |-> 0, gone |-> {}]

\* a call of HMRClient.detachFilePathSuites(filePath)
DetachCall(filePath) ==
    /\ detachLog = NoLog
    /\ nodes' = detachFilePathSuites(nodes, filePath)
    /\ detachLog' = DetachLog(nodes, filePath)
    /\ UNCHANGED <<loader, handlers, inbox, reloading, server>>
    /\ UNCHANGED hmrVars
    /\ UNCHANGED logVars
    /\ UNCHANGED bridgeVars

DetachNext == \E filePath \in TagPaths : DetachCall(filePath)

DetachSpec == DetachInit /\ [][DetachNext]_vars

(***************************************************************************)
(* The host page at work: loadSpecs after hmr:connected, one handleMessage *)
(* invocation per hmr:update (they are not serialized: each runs up to its *)
(* await and resumes when the import settles), and the messages the        *)
(* manager sends for rebuilt and removed files.                            *)
(***************************************************************************)
\* what the evaluation of a spec module registers below the root suite: a
\* spec, or a suite with a spec
Shapes == {"spec", "suite"}

\* what a module has registered when its evaluation throws: nothing yet, or
\* a suite with a spec
PartialShapes == {"none", "suite"}

ShapeSize(shape) ==
    CASE shape = "none" -> 0
      [] shape = "spec" -> 1
      [] shape = "suite" -> 2

\* the evaluation of the module of file origin (describe / it at top level)
Register(ns, shape, origin) ==
    LET n == Len(ns)
        flat == ns[Root].hasSpecs
        gen == n + 1
        suite(kids, sp) == [Node("suite", flat, origin, gen) EXCEPT
                               !.children = kids,
                               !.specs = IF flat THEN sp ELSE <<>>]
        spec == Node("spec", FALSE, origin, gen)
        top(isSpec) == [ns EXCEPT ![Root].children = Append(@, n + 1),
                                  ![Root].specs = IF flat /\ isSpec
                                                  THEN Append(@, n + 1) ELSE @]
    IN  CASE shape = "none" -> ns
          [] shape = "spec" -> top(TRUE) \o <<spec>>
          [] shape = "suite" -> top(FALSE) \o <<suite(<<n + 2>>, <<n + 2>>), spec>>

\* the spec files of hmr:connected: the *.spec.js names of the output
\* directory, sorted (u.spec.js sorts before unit_t.spec.js)
SpecFilesAtLoad ==
    SelectSeq(<<getOutputName(FU), getOutputName(FT)>>,
              LAMBDA o : \E f \in disk : isTestFile(f) /\ getOutputName(f) = o)

HostInit ==
    /\ HmrInitOn(InitDisk \cup {FU}, 0)
    /\ \E flat \in BOOLEAN : HostPage(flat, SpecFilesAtLoad)

Open == ~reloading

\* loadSpecs: the awaited import of the next spec file evaluates its module
LoadImport(shape) ==
    /\ Open
    /\ loader.pc = "import"
    /\ Len(nodes) + ShapeSize(shape) <= MaxHostNodes
    /\ nodes' = Register(nodes, shape, Head(loader.todo))
    /\ loader' = [loader EXCEPT !.pc = "tag"]
    /\ UNCHANGED <<handlers, inbox, reloading, detachLog, server>>
    /\ UNCHANGED hmrVars
    /\ UNCHANGED logVars
    /\ UNCHANGED bridgeVars

\* loadSpecs: the awaited import rejects after its module registered what
\* it got to; loadSpecs and the handler of hmr:connected reject, ws.onmessage
\* logs the error, and the remaining spec files are not loaded
LoadImportThrows(shape) ==
    /\ Open
    /\ loader.pc = "import"
    /\ Len(nodes) + ShapeSize(shape) <= MaxHostNodes
    /\ nodes' = Register(nodes, shape, Head(loader.todo))
    /\ loader' = [loader EXCEPT !.pc = "failed"]
    /\ UNCHANGED <<handlers, inbox, reloading, detachLog, server>>
    /\ UNCHANGED hmrVars
    /\ UNCHANGED logVars
    /\ UNCHANGED bridgeVars

\* loadSpecs resumes after the import: attachFilePathToSuites(file)
LoadTag ==
    /\ Open
    /\ loader.pc = "tag"
    /\ nodes' = attachFilePathToSuites(nodes, Head(loader.todo))
    /\ loader' = [pc |-> IF Tail(loader.todo) = <<>> THEN "done" ELSE "import",
                  todo |-> Tail(loader.todo)]
    /\ UNCHANGED <<handlers, inbox, reloading, detachLog, server>>
    /\ UNCHANGED hmrVars
    /\ UNCHANGED logVars
    /\ UNCHANGED bridgeVars

\* the files whose updates reach the host
HostFiles == TestFiles \cup {FM}

\* rebuildAll has rebuilt file f alone and sends its update
ServerRebuilt(f) ==
    /\ server.sent < MaxMsgs
    /\ f \notin server.gone
    /\ inbox' = inbox \o PassUpdates([direct |-> {f}, rebuilt |-> {f}], EmptyMap, {},
                                     {getOutputName(f)})
    /\ server' = [server EXCEPT !.sent = @ + 1]
    /\ UNCHANGED <<nodes, loader, handlers, reloading, detachLog>>
    /\ UNCHANGED hmrVars
    /\ UNCHANGED logVars
    /\ UNCHANGED bridgeVars

\* the update handleFileRemove sends for file f
RemovalUpdate(f) ==
    HmrUpdate(determineUpdateStrategy({f}, "unlink"), getOutputName(f), FALSE,
              isSourceFile(f), {})

\* handleFileRemove has removed test file f and sends its update
ServerRemoved(f) ==
    /\ server.sent < MaxMsgs
    /\ f \notin server.gone
    /\ inbox' = Append(inbox, RemovalUpdate(f))
    /\ server' = [sent |-> server.sent + 1, gone |-> server.gone \cup {f}]
    /\ UNCHANGED <<nodes, loader, handlers, reloading, detachLog>>
    /\ UNCHANGED hmrVars
    /\ UNCHANGED logVars
    /\ UNCHANGED bridgeVars

\* directory d is removed: the watcher reports every file of it and the
\* directory, handleFileRemove sends an update per file and
\* handleDirectoryRemove one for the directory, in either order
ServerRemovedDir(d, dirFirst) ==
    LET removedFiles == {f \in TestFiles \ server.gone : UnderDir(f, d)}
        perFile == [i \in DOMAIN SetToSeq(removedFiles) |->
                       RemovalUpdate(SetToSeq(removedFiles)[i])]
        forDir == <<HmrUpdate(determineUpdateStrategy(removedFiles, "unlinkDir"),
                              DirOutput(d), FALSE, TRUE, {})>>
    IN  /\ removedFiles # {}
        /\ server.sent + Len(perFile) + 1 <= MaxMsgs
        /\ inbox' = inbox \o (IF dirFirst THEN forDir \o perFile ELSE perFile \o forDir)
        /\ server' = [sent |-> server.sent + Len(perFile) + 1,
                      gone |-> server.gone \cup removedFiles]
        /\ UNCHANGED <<nodes, loader, handlers, reloading, detachLog>>
        /\ UNCHANGED hmrVars
        /\ UNCHANGED logVars
        /\ UNCHANGED bridgeVars

\* handleMessage is called with the next hmr:update and runs up to its first
\* await: a full-reload reloads the page, an update with content awaits the
\* import, an update without content runs hotUpdateSpec at once
handleMessage(h) ==
    /\ Open
    /\ inbox # <<>>
    /\ handlers[h].pc = "idle"
    /\ \A k \in HandlerIds : k < h => handlers[k].pc # "idle"
    /\ inbox' = Tail(inbox)
    /\ LET update == Head(inbox)
       IN  IF update.type = "full-reload"
           THEN /\ reloading' = TRUE
                /\ UNCHANGED <<nodes, handlers, detachLog>>
           ELSE IF update.content
           THEN /\ handlers' = [handlers EXCEPT ![h] = [pc |-> "importing", path |-> update.path]]
                /\ UNCHANGED <<nodes, reloading, detachLog>>
           ELSE /\ nodes' = hotUpdateSpec(nodes, update.path)
                /\ detachLog' = DetachLog(nodes, update.path)
                /\ UNCHANGED <<handlers, reloading>>
    /\ UNCHANGED <<loader, server>>
    /\ UNCHANGED hmrVars
    /\ UNCHANGED logVars
    /\ UNCHANGED bridgeVars

\* the module of the awaited import is evaluated and registers its suites
ImportEvaluated(h, shape) ==
    /\ Open
    /\ handlers[h].pc = "importing"
    /\ Len(nodes) + ShapeSize(shape) <= MaxHostNodes
    /\ nodes' = Register(nodes, shape, handlers[h].path)
    /\ handlers' = [handlers EXCEPT ![h].pc = "imported"]
    /\ UNCHANGED <<loader, inbox, reloading, detachLog, server>>
    /\ UNCHANGED hmrVars
    /\ UNCHANGED logVars
    /\ UNCHANGED bridgeVars

\* handleMessage resumes after the import: hotUpdateSpec(update.path)
HotUpdate(h) ==
    /\ Open
    /\ handlers[h].pc = "imported"
    /\ nodes' = hotUpdateSpec(nodes, handlers[h].path)
    /\ detachLog' = DetachLog(nodes, handlers[h].path)
    /\ handlers' = [handlers EXCEPT ![h] = IdleHandler]
    /\ UNCHANGED <<loader, inbox, reloading, server>>
    /\ UNCHANGED hmrVars
    /\ UNCHANGED logVars
    /\ UNCHANGED bridgeVars

\* the awaited import rejects, after its module registered what it got to:
\* the catch block calls location.reload()
ImportThrows(h, shape) ==
    /\ Open
    /\ handlers[h].pc = "importing"
    /\ Len(nodes) + ShapeSize(shape) <= MaxHostNodes
    /\ nodes' = Register(nodes, shape, handlers[h].path)
    /\ handlers' = [handlers EXCEPT ![h].pc = "failed"]
    /\ reloading' = TRUE
    /\ UNCHANGED <<loader, inbox, detachLog, server>>
    /\ UNCHANGED hmrVars
    /\ UNCHANGED logVars
    /\ UNCHANGED bridgeVars

HostNext ==
    \/ \E shape \in Shapes : LoadImport(shape)
    \/ \E shape \in PartialShapes : LoadImportThrows(shape)
    \/ LoadTag
    \/ \E f \in HostFiles : ServerRebuilt(f)
    \/ \E f \in TestFiles : ServerRemoved(f)
    \/ \E d \in Dirs, dirFirst \in BOOLEAN : ServerRemovedDir(d, dirFirst)
    \/ \E h \in HandlerIds : handleMessage(h)
    \/ \E h \in HandlerIds, shape \in Shapes : ImportEvaluated(h, shape)
    \/ \E h \in HandlerIds : HotUpdate(h)
    \/ \E h \in HandlerIds, shape \in PartialShapes : ImportThrows(h, shape)

HostSpec == HostInit /\ [][HostNext]_vars

(***************************************************************************)
(* Properties of detachFilePathSuites.                                     *)
(***************************************************************************)
\* the parent of node x in the tree, 0 if it has none
ParentIn(ns, x) ==
    IF \E p \in Reachable(ns) : x \in Range(ns[p].children)
    THEN CHOOSE p \in Reachable(ns) : x \in Range(ns[p].children)
    ELSE 0

RECURSIVE Ancestors(_, _)
Ancestors(ns, x) ==
    LET p == ParentIn(ns, x)
    IN  IF p = 0 THEN {} ELSE {p} \cup Ancestors(ns, p)

ComesBefore(seq, x, y) == \E i, j \in DOMAIN seq : i < j /\ seq[i] = x /\ seq[j] = y

\* node x of tree b is in tree a the same object, under the same parent and
\* in the same order relative to the siblings that a still has
Untouched(b, a, x) ==
    /\ x \in Reachable(a)
    /\ a[x].kind = b[x].kind /\ a[x].tag = b[x].tag /\ a[x].origin = b[x].origin
    /\ ParentIn(a, x) = ParentIn(b, x)
    /\ LET p == ParentIn(b, x)
       IN  p # 0 =>
             \A y \in Range(b[p].children) \cap Range(a[p].children) :
                 ComesBefore(b[p].children, x, y) <=> ComesBefore(a[p].children, x, y)

\* C7 as stated: after detachFilePathSuites(f), every node that was reachable
\* and whose tag differs from f is still reachable, the same object, under
\* the same parent and in the same relative order among its siblings, for
\* every tree and every assignment of tags.
C7_DetachFrame ==
    detachLog # NoLog =>
        \A x \in Reachable(detachLog.before) :
            detachLog.before[x].tag # detachLog.file
                => Untouched(detachLog.before, detachLog.after, x)

\* C7 amended: the same for every node whose tag differs from f and that
\* does not lie below a node tagged f other than the root.
C7_DetachFrameOutsideBranches ==
    detachLog # NoLog =>
        \A x \in Reachable(detachLog.before) :
            /\ detachLog.before[x].tag # detachLog.file
            /\ \A a \in Ancestors(detachLog.before, x) \ {Root} :
                   detachLog.before[a].tag # detachLog.file
            => Untouched(detachLog.before, detachLog.after, x)

\* a detach that removed a branch of f and kept a later sibling branch of
\* another file, and an untagged node below the root
C7_Witness ==
    /\ detachLog # NoLog
    /\ \E x, y, z \in Reachable(detachLog.before) \ {Root} :
          /\ detachLog.before[x].tag = detachLog.file
          /\ x \notin Reachable(detachLog.after)
          /\ detachLog.before[y].tag \in TagPaths \ {detachLog.file}
          /\ ParentIn(detachLog.before, y) = ParentIn(detachLog.before, x)
          /\ ComesBefore(detachLog.before[ParentIn(detachLog.before, x)].children, x, y)
          /\ detachLog.before[z].tag = NoTag
          /\ ParentIn(detachLog.before, z) = y
          /\ {y, z} \subseteq Reachable(detachLog.after)

(***************************************************************************)
(* Properties of the host page.                                            *)
(***************************************************************************)
\* C6: when detachFilePathSuites(f) has completed, no node reachable from
\* the root, the root included, carries tag f, and no child list or flat
\* spec list of a reachable node refers to a node tagged f.
C6_DetachComplete ==
    detachLog # NoLog =>
        \A x \in Reachable(detachLog.after) :
            /\ detachLog.after[x].tag # detachLog.file
            /\ \A c \in Range(detachLog.after[x].children) \cup Range(detachLog.after[x].specs) :
                   detachLog.after[c].tag # detachLog.file

\* C8: a hot update detaches the old suites of the file before the new ones
\* are registered: in no state are nodes of two evaluations of the same
\* module both reachable from the root.
C8_OneGenerationReachable ==
    \A x, y \in Reachable(nodes) :
        nodes[x].origin = nodes[y].origin => nodes[x].gen = nodes[y].gen

\* C9: when the re-import of a file has thrown, the old suites of the file
\* are gone and no new ones have been added: no node created by a module of
\* that file is reachable.
C9_FailedImportLeavesNothing ==
    \A h \in HandlerIds :
        handlers[h].pc = "failed" =>
            \A x \in Reachable(nodes) : nodes[x].origin # handlers[h].path

\* the host has received every message sent and finished every handler
HostSettled ==
    /\ Open
    /\ loader.pc = "done"
    /\ inbox = <<>>
    /\ \A h \in HandlerIds : handlers[h].pc = "idle"

\* C10: once the host has applied the updates sent for the deletion of a
\* test file (by unlink or by removal of its directory), no node tagged with
\* the path of that file is reachable from the root.
C10_DeletedFileUnreachable ==
    HostSettled =>
        \A f \in server.gone :
            \A x \in Reachable(nodes) : nodes[x].tag # getOutputName(f)

(***************************************************************************)
(* determineUpdateStrategy as a function of its inputs: it is evaluated    *)
(* for every set of at most MaxChanged files, every change type, every     *)
(* strategy and several layouts of the source and the test root.           *)
(***************************************************************************)
\* a spec file of a test root that lies inside the source root, a file of a
\* second source root, a critical file below a sub-directory
FN == [dir |-> <<"src", "tests">>, name |-> <<"n", "spec">>, ext |-> "ts"]
FX == [dir |-> <<"lib">>, name |-> <<"x">>, ext |-> "ts"]
FBoot == [dir |-> <<"src", "lib">>, name |-> <<"bootstrap">>, ext |-> "ts"]

ClassifyFiles == {FA, FM, FBoot, FT, FN, FX}

ChangeTypes == {"add", "change", "unlink", "addDir", "unlinkDir"}

Strategies == {"smart", "always-reload", "never-reload"}

\* the layouts: srcDirs[0] and testDirs[0]
SrcRoots == {<<"src">>, <<"src", "lib">>}
TestRoots == {<<"tests">>, <<"src", "tests">>}

ClassifyConfigs ==
    {[srcDir |-> s, testDir |-> t, strategy |-> p, mode |-> "selective"] :
        s \in SrcRoots, t \in TestRoots, p \in Strategies}

ChangedSets == {S \in SUBSET ClassifyFiles : Cardinality(S) <= MaxChanged}

ClassifyInit ==
    /\ \E cfg \in ClassifyConfigs : HmrInitFor(cfg, InitDisk, 0)
    /\ HostPage(FALSE, <<>>)

\* a call of determineUpdateStrategy(changedFiles, changeType)
Classify(changedFiles, changeType) ==
    /\ classifyLog' = [files |-> changedFiles, changeType |-> changeType,
                       policy |-> config.strategy,
                       result |-> determineUpdateStrategy(changedFiles, changeType)]
    /\ UNCHANGED walk
    /\ UNCHANGED hmrVars
    /\ UNCHANGED hostVars
    /\ UNCHANGED bridgeVars

\* HmrManager.setSourceChangeStrategy
setSourceChangeStrategy(strategy) ==
    /\ config' = [config EXCEPT !.strategy = strategy]
    /\ UNCHANGED <<disk, imports, outFiles, watcher, pendingEvents, allFiles,
                   rebuildQueue, directChanges, dependencyGraph, reverseDependencyGraph,
                   isRebuilding, rebuildPromise, viteCache, inputMap, emitted, calls,
                   rb, passNo, opsLeft, fatalLeft>>
    /\ UNCHANGED hostVars
    /\ UNCHANGED logVars
    /\ UNCHANGED bridgeVars

ClassifyNext ==
    \/ \E changedFiles \in ChangedSets, changeType \in ChangeTypes :
          Classify(changedFiles, changeType)
    \/ \E strategy \in Strategies : setSourceChangeStrategy(strategy)

ClassifySpec == ClassifyInit /\ [][ClassifyNext]_vars

Classified == classifyLog # NoClassify

\* C11: a set of which every file lies under the test root is never
\* classified full-reload, whatever the strategy, the change type and the
\* source root.
C11_TestOnlyNeverReloads ==
    (/\ Classified
     /\ classifyLog.files # {}
     /\ \A f \in classifyLog.files : isTestFile(f))
        => classifyLog.result.type # "full-reload"

\* rule 1 of the classifier applies: no changed file is a source file and
\* at least one is a test file
TestOnly(files) ==
    /\ ~\E f \in files : IsPrefix(config.srcDir, f.dir)
    /\ \E f \in files : IsPrefix(config.testDir, f.dir)

\* the critical flag of a file: a source file that matches a critical pattern
CriticalFlag(f) == IsPrefix(config.srcDir, f.dir) /\ MatchesCriticalPattern(f)

\* C13: a removal (unlink or unlinkDir) of a set that is not test-only is
\* classified full-reload if some removed file is critical and update
\* otherwise, whatever the strategy.
C13_RemovalByCriticality ==
    (/\ Classified
     /\ classifyLog.changeType \in {"unlink", "unlinkDir"}
     /\ ~TestOnly(classifyLog.files))
        => classifyLog.result.type =
              IF \E f \in classifyLog.files : CriticalFlag(f)
              THEN "full-reload" ELSE "update"

\* the removal of a critical file under never-reload, and the removal of a
\* file that matches a critical pattern outside the source root
C13_Witness ==
    /\ Classified
    /\ classifyLog.changeType = "unlink"
    /\ \/ /\ classifyLog.policy = "never-reload"
          /\ classifyLog.files = {FBoot}
          /\ CriticalFlag(FBoot)
          /\ classifyLog.result.type = "full-reload"
       \/ /\ classifyLog.files = {FM}
          /\ ~CriticalFlag(FM)
          /\ classifyLog.result.type = "update"

\* C14: a modification of a set with at least one source file is classified
\* by the strategy: smart gives full-reload iff some changed file is
\* critical, always-reload gives full-reload, never-reload gives update.
C14_ModificationByPolicy ==
    (/\ Classified
     /\ classifyLog.changeType = "change"
     /\ \E f \in classifyLog.files : IsPrefix(config.srcDir, f.dir))
        => classifyLog.result.type =
              IF classifyLog.policy = "always-reload" THEN "full-reload"
              ELSE IF classifyLog.policy = "never-reload" THEN "update"
              ELSE IF \E f \in classifyLog.files : CriticalFlag(f)
              THEN "full-reload" ELSE "update"

\* a critical file modified under never-reload gives update
C14_Witness ==
    /\ Classified
    /\ classifyLog.changeType = "change"
    /\ classifyLog.policy = "never-reload"
    /\ \E f \in classifyLog.files : CriticalFlag(f)
    /\ classifyLog.result.type = "update"

\* what the classifier may depend on, per file: its kind and its flag
FileClass(f) ==
    [source |-> IsPrefix(config.srcDir, f.dir), test |-> IsPrefix(config.testDir, f.dir),
     critical |-> CriticalFlag(f)]

SameInputs(S, T) == {FileClass(f) : f \in S} = {FileClass(f) : f \in T}

\* C15: the result of the classifier is a function of the kinds and flags of
\* the changed files, the change type and the strategy: every evaluation
\* with equal inputs gives the same type and reason; and an evaluation
\* changes no state of the manager.
C15_ClassifierDeterministic ==
    /\ [](Classified /\ config.strategy = classifyLog.policy =>
            \A S \in ChangedSets :
                SameInputs(S, classifyLog.files) =>
                    determineUpdateStrategy(S, classifyLog.changeType) = classifyLog.result)
    /\ [][classifyLog' # classifyLog => UNCHANGED hmrVars]_vars

\* an evaluation for two files where a one-file set has the same inputs
C15_Witness ==
    /\ Classified
    /\ config.strategy = classifyLog.policy
    /\ Cardinality(classifyLog.files) = 2
    /\ \E f \in classifyLog.files : SameInputs({f}, classifyLog.files)

(***************************************************************************)
(* The manager under each source change strategy.                          *)
(***************************************************************************)
PolicyInit ==
    /\ \E strategy \in Strategies :
          HmrInitFor([DefaultConfig EXCEPT !.strategy = strategy], InitDisk, MaxPolicyOps)
    /\ HostPage(FALSE, <<>>)

PolicySpec == PolicyInit /\ [][Next]_vars

\* the queueRebuild calls whose files the last successful pass drained
LastPassCalls == {k \in CallIds : calls[k].pc # "free" /\ calls[k].drainedIn = viteCache}

\* C12: the updates emitted by a rebuild pass whose changes are all added
\* source files have type update, even when an added file is critical and
\* whatever the strategy.
C12_AddedFilesNeverReload ==
    (/\ emitted # <<>>
     /\ \A i \in DOMAIN emitted : emitted[i].content
     /\ LastPassCalls # {}
     /\ \A k \in LastPassCalls : calls[k].kind = "add" /\ isSourceFile(calls[k].file))
        => \A i \in DOMAIN emitted : emitted[i].type = "update"

(***************************************************************************)
(* The transport of the updates: WebSocketManager.  The n-th hmr:update    *)
(* event of the manager is the message n.                                  *)
(***************************************************************************)
\* wss.on('connection'): the socket is pushed to wsClients, then the handler
\* awaits scanDir
WsConnection(c) ==
    /\ ~transport.closed
    /\ transport.clients[c].state = "none"
    /\ \A k \in ClientIds : k < c => transport.clients[k].state # "none"
    /\ transport' = [transport EXCEPT !.clients[c].state = "open"]
    /\ UNCHANGED <<adapter, forwarder, runner>>
    /\ UNCHANGED <<hmrVars, hostVars, logVars>>

\* the connection handler resumes: sendToClient(ws, hmr:connected)
WsGreet(c) ==
    /\ transport.clients[c].state # "none"
    /\ ~transport.clients[c].greeted
    /\ transport' = [transport EXCEPT
                        !.clients[c].greeted = TRUE,
                        !.clients[c].received =
                            IF transport.clients[c].state = "open"
                            THEN Append(@, 0) ELSE @]
    /\ UNCHANGED <<adapter, forwarder, runner>>
    /\ UNCHANGED <<hmrVars, hostVars, logVars>>

\* the listener of enableHmr: broadcast({type: 'hmr:update', data: update})
\* sends to every client of wsClients whose readyState is OPEN
broadcast ==
    /\ transport.sent < MaxBroadcasts
    /\ transport' = [transport EXCEPT
                        !.sent = @ + 1,
                        !.clients = [c \in ClientIds |->
                                        IF transport.clients[c].state = "open"
                                        THEN [transport.clients[c] EXCEPT
                                                 !.received = Append(@, transport.sent + 1)]
                                        ELSE transport.clients[c]]]
    /\ UNCHANGED <<adapter, forwarder, runner>>
    /\ UNCHANGED <<hmrVars, hostVars, logVars>>

\* ws.on('close'): the socket leaves wsClients
WsClose(c) ==
    /\ transport.clients[c].state = "open"
    /\ transport' = [transport EXCEPT !.clients[c].state = "closed"]
    /\ UNCHANGED <<adapter, forwarder, runner>>
    /\ UNCHANGED <<hmrVars, hostVars, logVars>>

TransportNext ==
    \/ \E c \in ClientIds : WsConnection(c)
    \/ \E c \in ClientIds : WsGreet(c)
    \/ broadcast
    \/ \E c \in ClientIds : WsClose(c)

TransportInit == InitWith(0)

TransportSpec == TransportInit /\ [][TransportNext]_vars

\* the updates a client has received, in order
UpdatesOf(received) == SelectSeq(received, LAMBDA n : n > 0)

\* C16: a connected host has been delivered every update sent so far, those
\* sent before it connected included, in the order they were sent.
C16_QueuedUntilConnected ==
    \A c \in ClientIds :
        transport.clients[c].state = "open" /\ transport.clients[c].greeted
            => UpdatesOf(transport.clients[c].received) = [n \in 1..transport.sent |-> n]

(***************************************************************************)
(* HostAdapter: the messages of the child process are queued and handled   *)
(* by processQueue.  The m-th message to arrive is message m.  The log is  *)
(* what the reporter sees: the start of a callback, its end, its failure;  *)
(* "none" stands for a message that calls no callback ('ready', an unknown *)
(* type, a method the reporter does not have).                             *)
(***************************************************************************)
\* how the reporter callback of a message behaves: it returns a value, it
\* returns a promise that resolves or rejects later, it throws, or there is
\* no callback
Outcomes == {"sync", "async", "throws", "none"}

\* task(): handleMessage and callReporter run up to the await of processQueue
startTask(a, m, outcome) ==
    [a EXCEPT !.task = m,
              !.log = @ \o (CASE outcome = "sync" -> <<[m |-> m, ev |-> "start"], [m |-> m, ev |-> "end"]>>
                              [] outcome = "async" -> <<[m |-> m, ev |-> "start"]>>
                              [] outcome = "throws" -> <<[m |-> m, ev |-> "start"], [m |-> m, ev |-> "threw"]>>
                              [] outcome = "none" -> <<[m |-> m, ev |-> "none"]>>)]

\* the while loop of processQueue: shift the next task and call it, or leave
\* the loop and reset isProcessing
processQueueLoop(a, outcome) ==
    IF a.queue = <<>>
    THEN [a EXCEPT !.isProcessing = FALSE, !.task = 0]
    ELSE startTask([a EXCEPT !.queue = Tail(@)], Head(a.queue), outcome)

\* the callback of the task has started and has not settled
Pending(a) ==
    /\ a.task # 0
    /\ a.log # <<>>
    /\ a.log[Len(a.log)] = [m |-> a.task, ev |-> "start"]

\* the task is rejected
Failed(a) == a.task # 0 /\ a.log # <<>> /\ a.log[Len(a.log)].ev = "threw"

\* processQueue without the try / catch around await task()
afterTaskNoCatch(a, rejects, outcome) ==
    LET a1 == IF Pending(a)
              THEN [a EXCEPT !.log = Append(@, [m |-> a.task, ev |-> IF rejects THEN "threw" ELSE "end"])]
              ELSE a
    IN  IF Failed(a1) THEN [a1 EXCEPT !.task = 0] ELSE processQueueLoop(a1, outcome)

\* processQueue resumes after await task(): a rejection is caught and
\* logged, then the loop goes on
afterTask(a, rejects, outcome) ==
    LET a1 == IF Pending(a)
              THEN [a EXCEPT !.log = Append(@, [m |-> a.task, ev |-> IF rejects THEN "threw" ELSE "end"])]
              ELSE a
    IN  processQueueLoop(a1, outcome)

\* child.on('message'): the task is pushed; processQueue is started if idle
ChildMessage(outcome) ==
    /\ adapter.arrived < MaxHostEvents
    /\ LET m == adapter.arrived + 1
           a == [adapter EXCEPT !.arrived = m, !.queue = Append(@, m)]
       IN  adapter' = IF ~a.isProcessing
                      THEN processQueueLoop([a EXCEPT !.isProcessing = TRUE], outcome)
                      ELSE a
    /\ UNCHANGED <<transport, forwarder, runner>>
    /\ UNCHANGED <<hmrVars, hostVars, logVars>>

\* the awaited task settles and processQueue resumes
TaskSettled(rejects, outcome) ==
    /\ adapter.task # 0
    /\ rejects => Pending(adapter)
    /\ adapter' = afterTask(adapter, rejects, outcome)
    /\ UNCHANGED <<transport, forwarder, runner>>
    /\ UNCHANGED <<hmrVars, hostVars, logVars>>

AdapterNext ==
    \/ \E outcome \in Outcomes : ChildMessage(outcome)
    \/ \E rejects \in BOOLEAN, outcome \in Outcomes : TaskSettled(rejects, outcome)

AdapterInit == InitWith(0)

AdapterSpec == AdapterInit /\ [][AdapterNext]_vars

\* the positions of the log at which message m starts being handled
Starts(m) == {i \in DOMAIN adapter.log : adapter.log[i].m = m /\ adapter.log[i].ev \in {"start", "none"}}

\* the positions at which the handling of message m is over
Ends(m) == {i \in DOMAIN adapter.log : adapter.log[i].m = m /\ adapter.log[i].ev \in {"end", "threw", "none"}}

\* C17: the reporter callbacks are invoked in the order the messages
\* arrived and one at a time: when the callback of a message starts, the
\* callback of every earlier message has settled; and a failure does not
\* stop the processing: whenever no task is awaited, the queue is empty and
\* the processor is idle.
C17_HostEventsInOrder ==
    /\ \A i, j \in DOMAIN adapter.log : i < j => adapter.log[i].m <= adapter.log[j].m
    /\ \A m \in 1..adapter.arrived : \A i \in Starts(m) :
          \A k \in 1..(m - 1) : \E j \in Ends(k) : j < i
    /\ \A m \in 1..adapter.arrived : Cardinality(Starts(m)) <= 1
    /\ adapter.task = 0 => adapter.queue = <<>> /\ ~adapter.isProcessing

\* a message arrived while an asynchronous callback was pending, a callback
\* failed, and the message after the failure was handled
C17_Witness ==
    /\ adapter.arrived >= 3
    /\ \E m \in 1..(adapter.arrived - 1) :
          /\ \E i \in DOMAIN adapter.log : adapter.log[i] = [m |-> m, ev |-> "threw"]
          /\ Starts(m + 1) # {} /\ Ends(m + 1) # {}
    /\ \E m \in 1..adapter.arrived, i, j \in DOMAIN adapter.log :
          /\ i + 1 < j + 0
          /\ adapter.log[i] = [m |-> m, ev |-> "start"]
          /\ adapter.log[i + 1] = [m |-> m, ev |-> "end"]
          /\ adapter.log[j].m = m + 1

(***************************************************************************)
(* Shutdown: ViteJasmineRunner.cleanup awaits HmrManager.stop (StopBegin,  *)
(* StopEnd), then WebSocketManager.cleanup.                                *)
(***************************************************************************)
\* WebSocketManager.cleanup, called once stop() has resolved: its own call
\* of stop() finds no watcher; every open client is closed, wsClients is
\* emptied and the server is closed
WsCleanup ==
    /\ watcher = "off"
    /\ ~transport.closed
    /\ transport' = [transport EXCEPT
                        !.closed = TRUE,
                        !.clients = [c \in ClientIds |->
                                        IF transport.clients[c].state = "open"
                                        THEN [transport.clients[c] EXCEPT !.state = "closed"]
                                        ELSE transport.clients[c]]]
    /\ UNCHANGED <<adapter, forwarder, runner>>
    /\ UNCHANGED <<hmrVars, hostVars, logVars>>

ShutdownNext ==
    \/ NextWithStop
    \/ \E c \in ClientIds : WsConnection(c)
    \/ WsCleanup

ShutdownInit == InitWith(MaxStopOps)

ShutdownSpec == ShutdownInit /\ [][ShutdownNext]_vars

\* C20: the transport is closed only after the watcher has been stopped and
\* the rebuild in flight has settled: while the transport is closed, the
\* watcher is off and no rebuild pass is in flight.
C20_ShutdownOrdering ==
    transport.closed => watcher = "off" /\ InPass = {} /\ ~isRebuilding

(***************************************************************************)
(* Properties of the rebuild pass.                                         *)
(***************************************************************************)
\* the events the step hands to handleFileRemove or handleDirectoryRemove,
\* which read and purge both graph maps
RemovalsHandled ==
    {e \in pendingEvents \ pendingEvents' :
        \/ e.kind = "unlink" /\ matchesFilter(e.file)
        \/ e.kind = "unlinkDir"}

\* buildDependencyGraph is suspended at line 270 for a file whose old
\* reverse edges are removed and whose new edges are not installed
SuspendedInGraphUpdate(c) == rb[c].pc = "bdg" /\ rb[c].cur # NoFile

\* C21: the graph update of a file is not split across a suspension point:
\* no removal handler runs, and nothing changes either graph map, between
\* the removal of a file's old reverse edges and the installation of its
\* new edges.
C21_GraphUpdateNotSplit ==
    [][\A c \in CallIds :
          SuspendedInGraphUpdate(c) /\ rb'[c] = rb[c]
              => /\ RemovalsHandled = {}
                 /\ UNCHANGED <<dependencyGraph, reverseDependencyGraph>>]_vars

\* the files of the queueRebuild calls that no pass has drained and no
\* removal has dropped
Undrained == {calls[k].file : k \in {j \in CallIds : calls[j].pc # "free" /\ calls[j].drainedIn = 0}}

\* the step starts a pass from a continuation (not from a watcher handler,
\* which queues and drains in one step)
DrainsQueue(c) ==
    /\ passNo' = passNo + 1
    /\ rb'[c].pass = passNo'
    /\ pendingEvents' = pendingEvents

\* C22: the pending change set is copied and cleared in one step: the pass
\* gets exactly the queued paths that exist on disk at that moment and both
\* sets are left empty; and a change queued later stays in the set until a
\* later pass drains it (or a removal drops it): at every moment the set
\* holds exactly the files of the calls not yet drained.
C22_AtomicDrain ==
    /\ [](rebuildQueue = Undrained /\ directChanges = rebuildQueue)
    /\ [](\A k \in CallIds : calls[k].drainedIn > 0 => calls[k].drainedIn > calls[k].issuedIn)
    /\ [][\A c \in CallIds :
            DrainsQueue(c)
                => /\ rebuildQueue' = {} /\ directChanges' = {}
                   /\ rb'[c].direct \subseteq disk
                   /\ rb'[c].pc = "bdg" => rb'[c].direct = directChanges \cap disk
                   /\ \A k \in CallIds :
                         calls'[k].drainedIn = passNo' <=>
                             calls[k].pc # "free" /\ calls[k].drainedIn = 0]_vars

\* C22 witness: a change queued during one pass was drained by the next
\* pass, which is running, and a change queued during that pass is waiting
\* in the set.
C22_Witness ==
    \E c, j, k \in CallIds :
        /\ rb[c].pc \in Running
        /\ rb[c].pass >= 2
        /\ calls[j].issuedIn = rb[c].pass - 1
        /\ calls[j].drainedIn = rb[c].pass
        /\ calls[j].file \in rb[c].direct
        /\ calls[k].issuedIn = rb[c].pass /\ calls[k].drainedIn = 0
        /\ calls[k].file \in rebuildQueue
        /\ calls[k].file \notin rb[c].direct

\* C23: the bundler is never invoked with zero build entries: a bundler
\* call that has not settled was given at least one entry.
C23_NoEmptyBuild == \A c \in CallIds : rb[c].pc \in Building => rb[c].entries # {}

\* C24: the entries given to the bundler are files of the affected set of
\* the pass: no other file, such as an entry of an earlier build, is a
\* build entry.
C24_EntriesAreAffectedSet ==
    \A c \in CallIds : rb[c].pc \in Building => rb[c].entries \subseteq rb[c].rebuilt

(***************************************************************************)
(* getFilesToRebuild in selective mode, one iteration of its while loop    *)
(* per step, over arbitrary reverse graphs (cycles and edges to deleted    *)
(* files included).                                                        *)
(***************************************************************************)
WalkFiles == {FA, FB, FT}

WalkGraphs == [WalkFiles -> SUBSET WalkFiles]

\* lines 363-364: const queue = [changedFile]; const visited = new Set()
StartWalk(changedFile) ==
    [start |-> changedFile, queue |-> <<changedFile>>, visited |-> {},
     filesToRebuild |-> {}, order |-> <<>>, iter |-> 0, done |-> FALSE]

WalkInit ==
    /\ \E d \in SUBSET WalkFiles, rdg \in WalkGraphs, changedFile \in WalkFiles :
          HmrInitGraph(DefaultConfig, d, rdg, StartWalk(changedFile), 0)
    /\ HostPage(FALSE, <<>>)

\* an iteration that does not look at the visited set
walkIterationRevisiting(w, ord) ==
    LET current == Head(w.queue)
    IN  [w EXCEPT !.iter = @ + 1,
                  !.queue = Tail(@) \o ord,
                  !.visited = @ \cup {current},
                  !.order = Append(@, current),
                  !.filesToRebuild = @ \cup ({current} \cap disk)]

\* lines 367-385: one iteration of the loop; ord is the order in which the
\* existing dependents of current are pushed
walkIteration(w, ord) ==
    LET current == Head(w.queue)
    IN  IF current \in w.visited
        THEN [w EXCEPT !.iter = @ + 1, !.queue = Tail(@)]
        ELSE [w EXCEPT !.iter = @ + 1,
                       !.queue = Tail(@) \o ord,
                       !.visited = @ \cup {current},
                       !.order = Append(@, current),
                       !.filesToRebuild = @ \cup ({current} \cap disk)]

\* the existing dependents of the file at the head of the queue
DependentsToPush(w) ==
    IF Head(w.queue) \in w.visited THEN {}
    ELSE MapGet(reverseDependencyGraph, Head(w.queue)) \cap disk

WalkIterate ==
    /\ ~walk.done
    /\ walk.queue # <<>>
    /\ \E ord \in Orders(DependentsToPush(walk)) :
          walk' = walkIteration(walk, ord)
    /\ UNCHANGED classifyLog
    /\ UNCHANGED <<hmrVars, hostVars, bridgeVars>>

\* line 388: the queue is empty and the set is returned
WalkReturn ==
    /\ ~walk.done
    /\ walk.queue = <<>>
    /\ walk' = [walk EXCEPT !.done = TRUE]
    /\ UNCHANGED classifyLog
    /\ UNCHANGED <<hmrVars, hostVars, bridgeVars>>

WalkNext == WalkIterate \/ WalkReturn

WalkSpec == WalkInit /\ [][WalkNext]_vars

\* a set that holds the changed file and, with a file, its existing
\* dependents
ClosedUnderDependents(S) ==
    /\ walk.start \in S
    /\ \A u \in S : MapGet(reverseDependencyGraph, u) \cap disk \subseteq S

\* the files reachable from the changed file along dependents edges through
\* existing files
ReachableDependents ==
    CHOOSE S \in SUBSET WalkFiles :
        ClosedUnderDependents(S) /\ \A T \in SUBSET WalkFiles : ClosedUnderDependents(T) => S \subseteq T

\* the number of dependents edges from the changed file to f through
\* existing files
RECURSIVE DistanceIn(_, _, _, _)
DistanceIn(frontier, seen, f, k) ==
    IF f \in frontier THEN k
    ELSE IF frontier = {} THEN MaxTreeNodes + 10
    ELSE DistanceIn((UNION {MapGet(reverseDependencyGraph, v) \cap disk : v \in frontier}) \ (seen \cup frontier),
                    seen \cup frontier, f, k + 1)

Distance(f) == DistanceIn({walk.start}, {}, f, 0)

EdgeCount == Cardinality({e \in WalkFiles \X WalkFiles : e[2] \in reverseDependencyGraph[e[1]]})

\* the chain of the example: FT imports FA, FA imports FB, FB is changed
ChainExample ==
    /\ disk = WalkFiles
    /\ reverseDependencyGraph = [f \in WalkFiles |-> IF f = FB THEN {FA} ELSE IF f = FA THEN {FT} ELSE {}]
    /\ walk.start = FB

\* C25: in selective mode the walk visits each file at most once, in
\* breadth-first order, it ends after a bounded number of iterations on
\* every graph, and it returns the existing files reachable from the
\* changed file along dependents edges, which is what the set computation
\* used by the pass gives; for the chain A -> B -> C with C changed it
\* returns the three files.
C25_AffectedSetIsReverseClosure ==
    /\ rebuildMode = "selective"
    /\ \A i, j \in DOMAIN walk.order : i < j =>
          /\ walk.order[i] # walk.order[j]
          /\ Distance(walk.order[i]) <= Distance(walk.order[j])
    /\ walk.iter <= 1 + EdgeCount
    /\ walk.done =>
          /\ walk.filesToRebuild = ReachableDependents \cap disk
          /\ walk.filesToRebuild = getFilesToRebuild(reverseDependencyGraph, allFiles, walk.start)
          /\ ChainExample => walk.filesToRebuild = {FB, FA, FT}

\* C25 witness: the walk has returned on a graph with an import cycle
\* through the changed file and an edge to a deleted file.
C25_Witness ==
    /\ walk.done
    /\ \E a, b \in WalkFiles :
          /\ a # b /\ a = walk.start
          /\ b \in reverseDependencyGraph[a] /\ a \in reverseDependencyGraph[b]
          /\ {a, b} \subseteq disk
          /\ \E x \in WalkFiles \ disk : x \in reverseDependencyGraph[b]
    /\ Cardinality(walk.filesToRebuild) = 2

\* the walk has returned on the chain of the example
C25_ChainWalked == walk.done /\ ChainExample

(***************************************************************************)
(* The emit loop of a pass, for a manager whose graph was built by earlier *)
(* passes over a project with a critical source file (src/main.ts), and    *)
(* change events for one or two files observed in the same turn.           *)
(***************************************************************************)
EmitFiles == {FA, FM, FT}

\* the import lists of the project: main.ts may import a.ts; the spec file
\* may import a.ts or main.ts
EmitImports ==
    {[f \in Files \cup EmitFiles |->
         IF f = FM THEN m ELSE IF f = FT THEN t ELSE {}] :
        m \in {{}, {FA}}, t \in {{}, {FA}, {FM}}}

\* the reverse graph buildDependencyGraph builds from these import lists
ReverseOf(imp) ==
    [f \in {x \in EmitFiles : \E g \in EmitFiles : x \in imp[g]} |->
        {g \in EmitFiles : f \in imp[g]}]

EmitInit ==
    /\ \E strategy \in Strategies, imp \in EmitImports,
          changed \in {S \in SUBSET EmitFiles : S # {} /\ Cardinality(S) <= MaxChanged} :
          /\ config = [DefaultConfig EXCEPT !.strategy = strategy]
          /\ imports = imp
          /\ dependencyGraph = [f \in EmitFiles |-> imp[f]]
          /\ reverseDependencyGraph = ReverseOf(imp)
          /\ pendingEvents = {Event("change", f, NoDir, 1) : f \in changed}
    /\ disk = EmitFiles
    /\ inputMap = buildInputMap({FA, FM}, {FT})
    /\ outFiles = {OutputOfKey(k) : k \in DOMAIN inputMap}
    /\ watcher = "on"
    /\ allFiles = {}
    /\ rebuildQueue = {}
    /\ directChanges = {}
    /\ isRebuilding = FALSE
    /\ rebuildPromise = 0
    /\ viteCache = 0
    /\ emitted = <<>>
    /\ calls = [k \in CallIds |-> FreeCall]
    /\ rb = [k \in CallIds |-> RbIdle]
    /\ passNo = 0
    /\ opsLeft = 0
    /\ fatalLeft = 0
    /\ classifyLog = NoClassify
    /\ walk = NoWalk
    /\ transport = NoTransport
    /\ adapter = IdleAdapter
    /\ forwarder = NoForwarder
    /\ runner = IdleRunner
    /\ HostPage(FALSE, <<>>)

EmitNext ==
    \/ \E f \in EmitFiles : HandleChange(f, 1)
    \/ \E c \in CallIds, nxt \in EmitFiles : BdgNextFile(c, nxt)
    \/ \E c \in CallIds : BdgDone(c)
    \/ \E c \in CallIds : BuildOk(c)
    \/ \E c \in CallIds : Finally(c)
    \/ \E k \in CallIds : Resume3(k)
    \/ \E k \in CallIds : Resume5(k)

EmitSpec == EmitInit /\ [][EmitNext]_vars

\* the bundler resolves for the pass of rebuildAll invocation c in this step
PassSucceeds(c) ==
    /\ rb[c].pc \in Building
    /\ viteCache' = rb[c].pass
    /\ viteCache # rb[c].pass

\* C26: every update emitted by a pass carries the type and the reason the
\* classifier gives for the directly changed files of the pass; the files
\* the expansion added have no part in it.
C26_StrategyFromDirectChanges ==
    [][\A c \in CallIds :
          PassSucceeds(c) =>
              \A i \in DOMAIN emitted' :
                  /\ emitted'[i].type = determineUpdateStrategy(rb[c].direct, "change").type
                  /\ emitted'[i].reason = determineUpdateStrategy(rb[c].direct, "change").reason]_vars

\* C26 witness: under the smart policy a.ts alone was changed, the critical
\* main.ts was rebuilt as its dependent, and the updates of the pass are of
\* type update.
C26_Witness ==
    /\ sourceChangeStrategy = "smart"
    /\ viteCache = 1
    /\ Len(emitted) >= 2
    /\ \E i \in DOMAIN emitted : emitted[i].path = getOutputName(FM) /\ emitted[i].type = "update"
    /\ \E k \in CallIds : calls[k].file = FA /\ calls[k].drainedIn = 1
    /\ \A k \in CallIds : calls[k].pc = "free" \/ calls[k].file = FA

\* the updates of the step whose path is the output name of f
UpdatesFor(f) == {i \in DOMAIN emitted' : emitted'[i].path = getOutputName(f)}

\* C27: a successful pass emits exactly one update, with content, for each
\* rebuilt file whose output exists, and no other update; for the chain
\* t.spec.ts -> main.ts -> a.ts with a.ts changed it emits three.
C27_OneUpdatePerRebuiltFile ==
    [][\A c \in CallIds :
          PassSucceeds(c) =>
              /\ \A f \in rb[c].rebuilt :
                    Cardinality(UpdatesFor(f)) = IF getOutputName(f) \in outFiles' THEN 1 ELSE 0
              /\ \A i \in DOMAIN emitted' :
                    /\ emitted'[i].content
                    /\ \E f \in rb[c].rebuilt : emitted'[i].path = getOutputName(f)
              /\ (imports[FT] = {FM} /\ imports[FM] = {FA} /\ rb[c].direct = {FA})
                    => Len(emitted') = 3]_vars

\* C27 witness: a.ts was changed in the chain and the pass has emitted its
\* three updates.
C27_Witness ==
    /\ imports[FT] = {FM} /\ imports[FM] = {FA}
    /\ viteCache = 1
    /\ Len(emitted) = 3
    /\ \A k \in CallIds : calls[k].pc = "free" \/ calls[k].file = FA

\* the bundler call of rebuildAll invocation c settles in this step
BundlerSettles(c) == rb[c].pc \in Building /\ rb'[c] # rb[c]

\* ... with a failure that is not an unresolved entry
FatalFailure == fatalLeft' # fatalLeft

\* the entries of the pass of c that still exist
FinalEntries(c) == (rb[c].validSource \cup rb[c].validTest) \cap disk

\* the pass of c is over without an error: rebuildAll has returned or has
\* started a later pass
PassLeftCleanly(c) ==
    /\ ~rb'[c].failed
    /\ \/ rb'[c].pc = "returned"
       \/ rb'[c].pc = "bdg" /\ rb'[c].pass > rb[c].pass

\* C28: when the first bundler call of a pass fails on an unresolved entry,
\* the build is retried with the entries that still exist, or the pass is
\* left without an error when none exists; the retry is not retried; and
\* any other failure, and a failure of the retry, ends rebuildAll with the
\* error.
C28_RetryOnceOnUnresolvedEntry ==
    [][\A c \in CallIds :
          /\ (BundlerSettles(c) /\ rb[c].pc = "build" /\ ~PassSucceeds(c)) =>
                IF FatalFailure THEN rb'[c].pc = "threw"
                ELSE IF FinalEntries(c) = {} THEN PassLeftCleanly(c)
                ELSE /\ rb'[c].pc = "retry"
                     /\ rb'[c].pass = rb[c].pass
                     /\ FinalEntries(c) \subseteq rb'[c].entries
                     /\ rb'[c].entries \subseteq disk
          /\ (BundlerSettles(c) /\ rb[c].pc = "retry" /\ ~PassSucceeds(c)) =>
                rb'[c].pc = "threw"
          /\ rb'[c].pc = "retry" => rb[c].pc \in {"build", "retry"} /\ rb'[c].pass = rb[c].pass]_vars

\* C28 witness: the retry of a pass failed after a further entry had
\* disappeared, and rebuildAll ended with the error.
C28_Witness ==
    \E c \in CallIds :
        /\ rb[c].pc = "threw"
        /\ fatalLeft = MaxFatal
        /\ emitted = <<>>
        /\ viteCache < rb[c].pass

\* a pass is being retried with the entries that are left
C28_Retrying ==
    \E c \in CallIds :
        /\ rb[c].pc = "retry"
        /\ rb[c].entries # {}
        /\ ~(rb[c].validSource \cup rb[c].validTest \subseteq disk)

(***************************************************************************)
(* Properties of the removal handlers.                                     *)
(***************************************************************************)
\* the directories whose unlinkDir event the step hands to
\* handleDirectoryRemove
DirsRemoved == {e.dir : e \in {x \in pendingEvents \ pendingEvents' : x.kind = "unlinkDir"}}

\* the files the manager knows of: tracked, queued or in a graph map
Known(all, queue, direct, dg, rdg) ==
    all \cup queue \cup direct \cup Referenced(dg) \cup Referenced(rdg)

\* C29: handleDirectoryRemove leaves no file of the removed directory in
\* allFiles, in the pending change set or in either graph map, and emits
\* exactly one update, whose affectedTests are the existing test files that
\* depended on a file of the directory.
C29_DirectoryRemovePurges ==
    [][\A d \in DirsRemoved :
          /\ \A f \in Known(allFiles', rebuildQueue', directChanges',
                            dependencyGraph', reverseDependencyGraph') : ~UnderDir(f, d)
          /\ Len(emitted') = 1
          /\ emitted'[1].affectedTests =
                {t \in disk : isTestFile(t) /\ \E f \in MapGet(dependencyGraph, t) : UnderDir(f, d)}]_vars

\* the files whose unlink event the step hands to handleFileRemove
FilesRemoved ==
    {e.file : e \in {x \in pendingEvents \ pendingEvents' : x.kind = "unlink" /\ matchesFilter(x.file)}}

\* the edges of a map between files other than X
EdgesWithout(g, X) ==
    {e \in (DOMAIN g \ {X}) \X (Referenced(g) \ {X}) : e[2] \in g[e[1]]}

\* C30: after handleFileRemove(X), X is in neither graph map, in allFiles
\* or in the pending change set, exactly one update, for X, was emitted,
\* and the edges between other files are as they were.
C30_FileRemoveFrame ==
    [][\A X \in FilesRemoved :
          /\ X \notin Known(allFiles', rebuildQueue', directChanges',
                            dependencyGraph', reverseDependencyGraph')
          /\ Len(emitted') = 1
          /\ emitted'[1].path = getOutputName(X)
          /\ EdgesWithout(dependencyGraph', X) = EdgesWithout(dependencyGraph, X)
          /\ EdgesWithout(reverseDependencyGraph', X) = EdgesWithout(reverseDependencyGraph, X)]_vars

(***************************************************************************)
(* The removal of one file of a project whose graph is populated: a.ts,    *)
(* main.ts and t.spec.ts were bundled, one of them has been deleted and    *)
(* its unlink event is pending, possibly next to the change event of       *)
(* another file.                                                           *)
(***************************************************************************)
\* the import lists of the project: main.ts may import a.ts; the spec file
\* imports a.ts, main.ts or both
RemoveImports ==
    {[f \in Files \cup EmitFiles |->
         IF f = FM THEN m ELSE IF f = FT THEN t ELSE {}] :
        m \in {{}, {FA}}, t \in {{FA}, {FM}, {FA, FM}}}

RemoveInit ==
    /\ \E strategy \in Strategies, imp \in RemoveImports, X \in EmitFiles,
          changed \in {S \in SUBSET EmitFiles : Cardinality(S) <= MaxChanged} :
          /\ X \notin changed
          /\ config = [DefaultConfig EXCEPT !.strategy = strategy]
          /\ imports = imp
          /\ dependencyGraph = [f \in EmitFiles |-> imp[f]]
          /\ reverseDependencyGraph = ReverseOf(imp)
          /\ disk = EmitFiles \ {X}
          /\ pendingEvents = {Event("unlink", X, NoDir, 1)}
                                \cup {Event("change", f, NoDir, 1) : f \in changed}
    /\ inputMap = buildInputMap({FA, FM}, {FT})
    /\ outFiles = {OutputOfKey(k) : k \in DOMAIN inputMap}
    /\ watcher = "on"
    /\ allFiles = {}
    /\ rebuildQueue = {}
    /\ directChanges = {}
    /\ isRebuilding = FALSE
    /\ rebuildPromise = 0
    /\ viteCache = 0
    /\ emitted = <<>>
    /\ calls = [k \in CallIds |-> FreeCall]
    /\ rb = [k \in CallIds |-> RbIdle]
    /\ passNo = 0
    /\ opsLeft = 0
    /\ fatalLeft = 0
    /\ classifyLog = NoClassify
    /\ walk = NoWalk
    /\ transport = NoTransport
    /\ adapter = IdleAdapter
    /\ forwarder = NoForwarder
    /\ runner = IdleRunner
    /\ HostPage(FALSE, <<>>)

RemoveNext ==
    \/ \E f \in EmitFiles : handleFileRemove(f, 1)
    \/ \E f \in EmitFiles : HandleChange(f, 1)
    \/ \E c \in CallIds, nxt \in EmitFiles : BdgNextFile(c, nxt)
    \/ \E c \in CallIds : BdgDone(c)
    \/ \E c \in CallIds : BuildOk(c)
    \/ \E c \in CallIds : Finally(c)
    \/ \E k \in CallIds : Resume3(k)
    \/ \E k \in CallIds : Resume5(k)

RemoveSpec == RemoveInit /\ [][RemoveNext]_vars

\* the existing dependents of X, which handleFileRemove queues for rebuild
ExistingDependents(X) == MapGet(reverseDependencyGraph, X) \cap disk

\* C30 (amended): after handleFileRemove(X), X is in neither graph map, in
\* allFiles or in the pending change set, exactly one update, for X, was
\* emitted, the forward edges between other files are as they were, and a
\* reverse edge between other files is at most dropped, and only when X
\* has an existing dependent and the edge records an import of a file of
\* the affected set of the rebuild pass the handler has started.
C30_FileRemoveFrameAmended ==
    [][\A X \in FilesRemoved :
          /\ X \notin Known(allFiles', rebuildQueue', directChanges',
                            dependencyGraph', reverseDependencyGraph')
          /\ Len(emitted') = 1
          /\ emitted'[1].path = getOutputName(X)
          /\ EdgesWithout(dependencyGraph', X) = EdgesWithout(dependencyGraph, X)
          /\ EdgesWithout(reverseDependencyGraph', X) \subseteq EdgesWithout(reverseDependencyGraph, X)
          /\ \A e \in EdgesWithout(reverseDependencyGraph, X) \ EdgesWithout(reverseDependencyGraph', X) :
                /\ ExistingDependents(X) # {}
                /\ \E c \in CallIds :
                      /\ rb'[c].pc = "bdg" /\ rb[c].pc # "bdg"
                      /\ e[2] \in rb'[c].rebuilt]_vars

\* a removed file's update is out, the file is gone from the manager's
\* state, and the rebuild of a dependent has dropped the reverse edge of an
\* import the dependent still has
C30_Witness ==
    /\ Len(emitted) = 1
    /\ \E X \in EmitFiles \ disk :
          /\ emitted[1].path = getOutputName(X)
          /\ emitted[1].content = FALSE
          /\ X \notin Known(allFiles, rebuildQueue, directChanges,
                            dependencyGraph, reverseDependencyGraph)
    /\ \E c \in CallIds : rb[c].pc = "bdg"
    /\ \E t, g \in EmitFiles :
          g \in MapGet(dependencyGraph, t) /\ t \notin MapGet(reverseDependencyGraph, g)

(***************************************************************************)
(* Properties of the graph entries buildDependencyGraph writes.            *)
(***************************************************************************)
\* buildDependencyGraph resumes in this step and writes the entry of the
\* file it was suspended on
WritesEntry(c) == rb[c].pc = "bdg" /\ rb'[c] # rb[c]

\* C31: buildDependencyGraph writes nothing for a file that is missing when
\* its entry is written: the file gets no key in dependencyGraph and is
\* added to no set of reverseDependencyGraph.
C31_NoEntryForMissingFile ==
    [][\A c \in CallIds :
          WritesEntry(c) /\ rb[c].cur \notin disk
              => /\ rb[c].cur \notin DOMAIN dependencyGraph' \ DOMAIN dependencyGraph
                 /\ \A x \in DOMAIN reverseDependencyGraph' :
                       rb[c].cur \in reverseDependencyGraph'[x]
                           => rb[c].cur \in MapGet(reverseDependencyGraph, x)]_vars

(***************************************************************************)
(* The forwarders of the reporter events: WebSocketEventForwarder in the   *)
(* browser and ProcessEventForwarder in the child process.  The n-th       *)
(* reporter event given to a forwarder is the message n; the state of the  *)
(* channel (the socket, process.connected) is changed by the environment.  *)
(***************************************************************************)
ReporterEvent(n) == [type |-> "event", n |-> n]

UserAgentMessage == [type |-> "userAgent", n |-> 0]

\* WebSocketEventForwarder.send
wsForwarderSend(w, msg) ==
    IF w.connected /\ w.sock = "open"
    THEN [w EXCEPT !.wire = Append(@, msg)]
    ELSE [w EXCEPT !.queue = Append(@, msg)]

\* the while loop of ws.onopen: each queued message is shifted and sent
RECURSIVE wsFlush(_)
wsFlush(w) ==
    IF w.queue = <<>> THEN w
    ELSE wsFlush(wsForwarderSend([w EXCEPT !.queue = Tail(@)], Head(w.queue)))

\* ws.onopen: connected, the userAgent message, then the queued messages
FwdOpen ==
    /\ forwarder.ws.sock = "connecting"
    /\ forwarder.ws.opens < MaxOpens
    /\ forwarder' = [forwarder EXCEPT
                        !.ws = wsFlush(wsForwarderSend(
                                   [@ EXCEPT !.sock = "open", !.connected = TRUE,
                                             !.opens = @ + 1],
                                   UserAgentMessage))]
    /\ UNCHANGED <<transport, adapter, runner>>
    /\ UNCHANGED <<hmrVars, hostVars, logVars>>

\* ws.onerror
FwdError ==
    /\ forwarder.ws.sock = "open"
    /\ forwarder.ws.connected
    /\ forwarder' = [forwarder EXCEPT !.ws.connected = FALSE]
    /\ UNCHANGED <<transport, adapter, runner>>
    /\ UNCHANGED <<hmrVars, hostVars, logVars>>

\* ws.onclose: the timer for connect() is set
FwdClose ==
    /\ forwarder.ws.sock = "open"
    /\ forwarder' = [forwarder EXCEPT !.ws.sock = "closed", !.ws.connected = FALSE]
    /\ UNCHANGED <<transport, adapter, runner>>
    /\ UNCHANGED <<hmrVars, hostVars, logVars>>

\* the timer fires: connect() creates a new socket
FwdConnect ==
    /\ forwarder.ws.sock = "closed"
    /\ forwarder' = [forwarder EXCEPT !.ws.sock = "connecting"]
    /\ UNCHANGED <<transport, adapter, runner>>
    /\ UNCHANGED <<hmrVars, hostVars, logVars>>

\* a reporter callback of the browser's forwarder calls send
FwdReport ==
    /\ forwarder.produced < MaxForwarded
    /\ forwarder' = [forwarder EXCEPT
                        !.produced = @ + 1,
                        !.ws = wsForwarderSend(@, ReporterEvent(forwarder.produced + 1))]
    /\ UNCHANGED <<transport, adapter, runner>>
    /\ UNCHANGED <<hmrVars, hostVars, logVars>>

\* ProcessEventForwarder.send: queued when the channel is down; otherwise
\* the message is sent, and then the queue is sent while connected
processForwarderSend(p, msg) ==
    IF ~p.connected
    THEN [p EXCEPT !.queue = Append(@, msg)]
    ELSE [p EXCEPT !.wire = Append(@, msg) \o p.queue, !.queue = <<>>]

\* a reporter callback of the child's forwarder calls send
ProcReport ==
    /\ forwarder.produced < MaxForwarded
    /\ forwarder' = [forwarder EXCEPT
                        !.produced = @ + 1,
                        !.proc = processForwarderSend(@, ReporterEvent(forwarder.produced + 1))]
    /\ UNCHANGED <<transport, adapter, runner>>
    /\ UNCHANGED <<hmrVars, hostVars, logVars>>

\* process.connected changes: the channel to the parent goes down or is back
ProcChannel(up) ==
    /\ forwarder.proc.connected # up
    /\ forwarder' = [forwarder EXCEPT !.proc.connected = up]
    /\ UNCHANGED <<transport, adapter, runner>>
    /\ UNCHANGED <<hmrVars, hostVars, logVars>>

ForwarderInit == InitWith(0)

ForwarderNext ==
    \/ FwdOpen
    \/ FwdError
    \/ FwdClose
    \/ FwdConnect
    \/ FwdReport
    \/ ProcReport
    \/ \E up \in BOOLEAN : ProcChannel(up)

ForwarderSpec == ForwarderInit /\ [][ForwarderNext]_vars

\* the reporter events of a wire, in the order they were handed to the channel
EventsOn(wire) == SelectSeq(wire, LAMBDA m : m.type = "event")

InProductionOrder(seq) == \A i, j \in DOMAIN seq : i < j => seq[i].n < seq[j].n

\* C35: each forwarder hands the reporter events to its channel in the order
\* they were produced, also the ones it queued while the channel was down.
C35_ForwardersPreserveOrder ==
    /\ InProductionOrder(EventsOn(forwarder.ws.wire))
    /\ InProductionOrder(EventsOn(forwarder.proc.wire))

(***************************************************************************)
(* Properties of a failed hot update.                                      *)
(***************************************************************************)
\* the host has handed a message of this type to its socket
HostHasSent(type) ==
    \E i \in DOMAIN forwarder.ws.wire : forwarder.ws.wire[i].type = type

\* C32: when the re-import of a hot update has thrown in the host, the host
\* has sent an hmr:error message, and the page stays as it is until the next
\* update arrives.
C32_FailureReportedAsHmrError ==
    \A h \in HandlerIds :
        handlers[h].pc = "failed" => HostHasSent("hmr:error") /\ ~reloading

(***************************************************************************)
(* attachFilePathToSuites as a function of the tree: it is applied to      *)
(* every tree of MaxTreeNodes nodes with every assignment of kinds and of  *)
(* tags, and to what detachFilePathSuites leaves of such a tree (which     *)
(* holds nodes that are no longer reachable from the root).                *)
(***************************************************************************)
TagInit ==
    /\ HmrInitOn(InitDisk \cup {FU}, 0)
    /\ \E t \in {x \in ArbitraryTrees : WellFormed(x)} :
          nodes \in {t, detachFilePathSuites(t, getOutputName(FT))}
    /\ loader = [pc |-> "done", todo |-> <<>>]
    /\ handlers = [h \in HandlerIds |-> IdleHandler]
    /\ inbox = <<>>
    /\ reloading = FALSE
    /\ detachLog = NoLog
    /\ server = [sent |-> 0, gone |-> {}]

\* a call of HMRClient.attachFilePathToSuites(filePath)
TagCall(filePath) ==
    /\ detachLog = NoLog
    /\ nodes' = attachFilePathToSuites(nodes, filePath)
    /\ detachLog' = [file |-> filePath, before |-> nodes,
                     after |-> attachFilePathToSuites(nodes, filePath)]
    /\ UNCHANGED <<loader, handlers, inbox, reloading, server>>
    /\ UNCHANGED hmrVars
    /\ UNCHANGED logVars
    /\ UNCHANGED bridgeVars

TagNext == \E filePath \in TagPaths : TagCall(filePath)

TagSpec == TagInit /\ [][TagNext]_vars

\* C33: attachFilePathToSuites(p) gives tag p to the nodes that are reachable
\* from the root and untagged, and leaves every other node, the child lists
\* and the number of nodes as they were.
C33_TagsExactlyUntagged ==
    detachLog # NoLog =>
        /\ DOMAIN detachLog.after = DOMAIN detachLog.before
        /\ \A x \in DOMAIN detachLog.before :
              detachLog.after[x] =
                  IF x \in Reachable(detachLog.before) /\ detachLog.before[x].tag = NoTag
                  THEN [detachLog.before[x] EXCEPT !.tag = detachLog.file]
                  ELSE detachLog.before[x]

\* a tagging that found an untagged node, a node tagged with another file,
\* and an untagged node out of reach of the root
C33_Witness ==
    /\ detachLog # NoLog
    /\ \E x, y, u \in DOMAIN detachLog.before :
          /\ {x, y} \subseteq Reachable(detachLog.before)
          /\ detachLog.before[x].tag = NoTag
          /\ detachLog.after[x].tag = detachLog.file
          /\ detachLog.before[y].tag \in TagPaths \ {detachLog.file}
          /\ detachLog.after[y].tag = detachLog.before[y].tag
          /\ u \notin Reachable(detachLog.before)
          /\ detachLog.before[u].tag = NoTag
          /\ detachLog.after[u].tag = NoTag

(***************************************************************************)
(* Properties of the removal of a spec file in the host.                   *)
(***************************************************************************)
\* the host has handled the update sent for the removal of f, and no update
\* sent for f before the removal is still waiting or being handled
RemovalHandled(f) ==
    /\ f \in server.gone
    /\ \A i \in DOMAIN inbox : inbox[i].path # getOutputName(f)
    /\ \A h \in HandlerIds : handlers[h].path # getOutputName(f)

\* C34: once the host has handled the removal of a file, no node of the
\* suite tree carries the path of that file, in that state or later.
C34_RemovalIsTerminal ==
    \A f \in TestFiles :
        RemovalHandled(f) =>
            \A x \in Reachable(nodes) : nodes[x].tag # getOutputName(f)

\* C36: every suite or spec below the root that carries a tag was registered
\* by an import of the file of that tag, however the handlers of the host
\* interleave.
C36_TagIsOrigin ==
    \A x \in Reachable(nodes) \ {Root} :
        nodes[x].tag # NoTag => nodes[x].tag = nodes[x].origin

(***************************************************************************)
(* Properties of the greeting of a new client.                             *)
(***************************************************************************)
\* C37: what a client receives starts with hmr:connected: no hmr:update
\* reaches it before its hmr:connected message.
C37_ConnectedBeforeUpdates ==
    \A c \in ClientIds :
        \A i \in DOMAIN transport.clients[c].received :
            transport.clients[c].received[i] > 0
                => \E j \in 1..(i - 1) : transport.clients[c].received[j] = 0

(***************************************************************************)
(* Properties of the two pending sets.                                     *)
(***************************************************************************)
\* C38: rebuildQueue and directChanges hold the same paths whenever the
\* manager is suspended or idle, and the directly changed files of a pass
\* are the whole list the pass drained.
C38_DirectChangesIsQueue ==
    /\ directChanges = rebuildQueue
    /\ \A c \in CallIds : rb[c].pc \in Running => rb[c].direct = rb[c].changed

\* a pass is running on the list it drained while a later change waits in
\* both sets
C38_Witness ==
    /\ rebuildQueue # {}
    /\ directChanges = rebuildQueue
    /\ \E c \in CallIds :
          /\ rb[c].pc \in Running
          /\ rb[c].changed # {}
          /\ rb[c].direct = rb[c].changed
          /\ rebuildQueue \cap rb[c].changed = {}

(***************************************************************************)
(* NodeTestRunner.start(), of the runner that spawns a child process and   *)
(* of the runner of the host process.                                      *)
(***************************************************************************)
\* start() of the child-process runner: when a child is held the reporter is
\* told and the promise is rejected, and the executor goes on: the child is
\* spawned and its handle stored
ChildRunnerStart ==
    /\ Len(runner.calls) < MaxStarts
    /\ LET busy == runner.child # 0
           n == runner.spawned + 1
       IN  runner' = [runner EXCEPT
                         !.reported = IF busy THEN Append(@, "testsAborted") ELSE @,
                         !.calls = Append(@, [runner |-> "child", rejected |-> busy]),
                         !.spawned = n,
                         !.alive = @ \cup {n},
                         !.child = n]
    /\ UNCHANGED <<transport, adapter, forwarder>>
    /\ UNCHANGED <<hmrVars, hostVars, logVars>>

\* child.on('exit') of one of the spawned children
ChildExit(n) ==
    /\ n \in runner.alive
    /\ runner' = [runner EXCEPT !.alive = @ \ {n}, !.child = 0]
    /\ UNCHANGED <<transport, adapter, forwarder>>
    /\ UNCHANGED <<hmrVars, hostVars, logVars>>

\* start() of the runner of the host process, up to its first await
HostRunnerStart ==
    /\ Len(runner.calls) < MaxStarts
    /\ runner' = IF runner.isRunning
                 THEN [runner EXCEPT
                          !.reported = Append(@, "testsAborted"),
                          !.calls = Append(@, [runner |-> "host", rejected |-> TRUE])]
                 ELSE [runner EXCEPT
                          !.isRunning = TRUE,
                          !.runs = @ + 1,
                          !.calls = Append(@, [runner |-> "host", rejected |-> FALSE])]
    /\ UNCHANGED <<transport, adapter, forwarder>>
    /\ UNCHANGED <<hmrVars, hostVars, logVars>>

\* runTests settles: the finally block of start()
HostRunnerDone ==
    /\ runner.isRunning
    /\ runner' = [runner EXCEPT !.isRunning = FALSE]
    /\ UNCHANGED <<transport, adapter, forwarder>>
    /\ UNCHANGED <<hmrVars, hostVars, logVars>>

RunnerInit == InitWith(0)

RunnerNext ==
    \/ ChildRunnerStart
    \/ \E n \in 1..MaxStarts : ChildExit(n)
    \/ HostRunnerStart
    \/ HostRunnerDone

RunnerSpec == RunnerInit /\ [][RunnerNext]_vars

\* the step is a call of start() of the given runner
StartCalled(kind) ==
    /\ Len(runner'.calls) = Len(runner.calls) + 1
    /\ runner'.calls[Len(runner'.calls)].runner = kind

\* C39: a call of start() made while a run is in progress tells the reporter
\* testsAborted, is rejected, and starts nothing: no child is spawned, the
\* handle of the running child is kept, and the host run goes on alone.
C39_NoSecondRun ==
    [][/\ StartCalled("child") /\ runner.child # 0
          => /\ runner'.calls[Len(runner'.calls)].rejected
             /\ runner'.reported = Append(runner.reported, "testsAborted")
             /\ runner'.spawned = runner.spawned
             /\ runner'.child = runner.child
       /\ StartCalled("host") /\ runner.isRunning
          => /\ runner'.calls[Len(runner'.calls)].rejected
             /\ runner'.reported = Append(runner.reported, "testsAborted")
             /\ runner'.runs = runner.runs
             /\ runner'.isRunning]_vars

(***************************************************************************)
(* The handshake of the child process with the host: the child's           *)
(* ProcessEventForwarder on one side, the HostAdapter on the other, and    *)
(* the channel between them, which delivers in order.  Message m of the    *)
(* adapter is the m-th message of the child's wire.                        *)
(***************************************************************************)
ControlMessage(type) == [type |-> type, n |-> 0]

\* a hook that does not wait for the promise
hostReadyIgnored(p) == TRUE

\* await this.hostReadyPromise: the hook goes on once the promise is resolved
hostReadyAwaited(p) == p.hostReady

\* new ProcessEventForwarder(jasmine): the promise, the listener, 'ready'
ChildConstruct ==
    /\ forwarder.proc.hook = "none"
    /\ forwarder' = [forwarder EXCEPT
                        !.proc = [processForwarderSend(@, ControlMessage("ready"))
                                     EXCEPT !.hook = "idle"]]
    /\ UNCHANGED <<transport, adapter, runner>>
    /\ UNCHANGED <<hmrVars, hostVars, logVars>>

\* the timer of the child's script: forwarder.userAgent(), then env.execute()
\* calls the jasmineStarted hook, which sends and awaits hostReadyPromise
ChildJasmineStarted ==
    /\ forwarder.proc.hook = "idle"
    /\ forwarder' = [forwarder EXCEPT
                        !.proc = [processForwarderSend(
                                      processForwarderSend(@, ControlMessage("userAgent")),
                                      ControlMessage("jasmineStarted"))
                                     EXCEPT !.hook = "awaiting"]]
    /\ UNCHANGED <<transport, adapter, runner>>
    /\ UNCHANGED <<hmrVars, hostVars, logVars>>

\* the jasmineStarted hook resumes after its await and returns
ChildHookReturns ==
    /\ forwarder.proc.hook = "awaiting"
    /\ hostReadyAwaited(forwarder.proc)
    /\ forwarder' = [forwarder EXCEPT !.proc.hook = "running"]
    /\ UNCHANGED <<transport, adapter, runner>>
    /\ UNCHANGED <<hmrVars, hostVars, logVars>>

\* suiteStarted, specStarted, specDone, suiteDone: the next reporter event
ChildReport ==
    /\ forwarder.proc.hook = "running"
    /\ forwarder.produced < MaxForwarded
    /\ forwarder' = [forwarder EXCEPT
                        !.produced = @ + 1,
                        !.proc = processForwarderSend(@, ReporterEvent(forwarder.produced + 1))]
    /\ UNCHANGED <<transport, adapter, runner>>
    /\ UNCHANGED <<hmrVars, hostVars, logVars>>

\* onParentMessage: hostReady resolves the promise
ChildReceives ==
    /\ forwarder.toChild # <<>>
    /\ forwarder.proc.hook # "none"
    /\ forwarder' = [forwarder EXCEPT
                        !.toChild = Tail(@),
                        !.proc.hostReady = @ \/ Head(forwarder.toChild).type = "hostReady"]
    /\ UNCHANGED <<transport, adapter, runner>>
    /\ UNCHANGED <<hmrVars, hostVars, logVars>>

\* the messages whose task the adapter has started between a and a2
StartedBetween(a, a2) ==
    {a2.log[i].m : i \in {j \in (Len(a.log) + 1)..Len(a2.log) : a2.log[j].ev \in {"start", "none"}}}

\* HostAdapter.handleMessage: 'ready' calls no reporter and sends hostReady
\* to the child
HostHandles(a2, outcome) ==
    LET started == StartedBetween(adapter, a2)
        ready == \E m \in started : forwarder.proc.wire[m].type = "ready"
    IN  /\ ready => outcome = "none"
        /\ adapter' = a2
        /\ forwarder' = IF ready
                        THEN [forwarder EXCEPT !.toChild = Append(@, ControlMessage("hostReady"))]
                        ELSE forwarder

\* child.on('message') for the next message of the child
IpcToHost(outcome) ==
    /\ adapter.arrived < Len(forwarder.proc.wire)
    /\ LET m == adapter.arrived + 1
           a == [adapter EXCEPT !.arrived = m, !.queue = Append(@, m)]
       IN  HostHandles(IF ~a.isProcessing
                       THEN processQueueLoop([a EXCEPT !.isProcessing = TRUE], outcome)
                       ELSE a, outcome)
    /\ UNCHANGED <<transport, runner>>
    /\ UNCHANGED <<hmrVars, hostVars, logVars>>

\* the awaited task settles and processQueue takes the next one
HostTaskSettled(rejects, outcome) ==
    /\ adapter.task # 0
    /\ rejects => Pending(adapter)
    /\ HostHandles(afterTask(adapter, rejects, outcome), outcome)
    /\ UNCHANGED <<transport, runner>>
    /\ UNCHANGED <<hmrVars, hostVars, logVars>>

HandshakeInit == InitWith(0)

HandshakeNext ==
    \/ ChildConstruct
    \/ ChildJasmineStarted
    \/ ChildHookReturns
    \/ ChildReport
    \/ ChildReceives
    \/ \E outcome \in Outcomes : IpcToHost(outcome)
    \/ \E rejects \in BOOLEAN, outcome \in Outcomes : HostTaskSettled(rejects, outcome)

HandshakeSpec == HandshakeInit /\ [][HandshakeNext]_vars

\* the channel delivers, and a continuation that can run does run
HandshakeLiveSpec ==
    /\ HandshakeSpec
    /\ WF_vars(\E outcome \in Outcomes : IpcToHost(outcome))
    /\ WF_vars(ChildReceives)
    /\ WF_vars(ChildHookReturns)

\* the host has been delivered the child's message of this type
DeliveredToHost(type) ==
    \E m \in 1..adapter.arrived : forwarder.proc.wire[m].type = type

\* C40: no reporter event leaves the child, and the jasmineStarted hook does
\* not return, before hostReady has been received; once 'ready' (or
\* jasmineStarted) has been delivered to the host, hostReady reaches the
\* child, and a hook that waits returns.
C40_Handshake ==
    /\ [](forwarder.proc.hook = "running" \/ EventsOn(forwarder.proc.wire) # <<>>
             => forwarder.proc.hostReady)
    /\ (DeliveredToHost("ready") ~> forwarder.proc.hostReady)
    /\ (DeliveredToHost("jasmineStarted") ~> forwarder.proc.hostReady)
    /\ (forwarder.proc.hook = "awaiting" ~> forwarder.proc.hook = "running")

\* the hook waited: jasmineStarted was sent before hostReady arrived, and the
\* reporter events followed after it
C40_Witness ==
    /\ forwarder.proc.hook = "running"
    /\ forwarder.proc.hostReady
    /\ DeliveredToHost("jasmineStarted")
    /\ EventsOn(forwarder.proc.wire) # <<>>
    /\ forwarder.toChild = <<>>

====
